---- MODULE Spec2Model ----
(***************************************************************************)
(* A model of bulkers: the crate-reference parser, the manifest cache on   *)
(* the filesystem, the import resolver, command lookup and the shimlink    *)
(* directories of an activation.                                           *)
(*                                                                         *)
(* Text that the program parses (registry paths, import strings) is a      *)
(* sequence of one-character strings.  Command names, image names and      *)
(* directory names, which the program only compares, are plain strings.    *)
(***************************************************************************)
EXTENDS Integers, Sequences, FiniteSets, TLC

VARIABLES
    fs,         \* the manifest cache directory tree: [files, digests, dirs]
    saved,      \* history: the map from reference to manifest the cache stands for
    last,       \* the last completed cache or lookup operation and its result
    cratelist,  \* resolve_paths_with_imports: the starting references
    ci,         \* resolve_paths_with_imports: index of the next starting reference
    stack,      \* resolve_crate_paths: the active calls, innermost last
    paths,      \* resolve_crate_paths: the output list
    visited,    \* resolve_crate_paths: display names already entered
    rpc,        \* resolver position: "idle", "run", "done"
    rerr,       \* resolver: the error that ended the resolution, or NoError
    rsteps,     \* history: the steps the running resolution has taken
    removed,    \* history: a crate of the last successful resolution was removed
    writer,     \* a process in save_to_cache: its position and what it writes
    reader,     \* a process in load_cached: its position
    host,       \* the host environment `which` answers from
    tmp,        \* the temporary directory: the shimlink directories by name
    acts,       \* the processes in get_new_path: position, directory, manifests
    nextAct,    \* history: the number the next activation gets
    got,        \* history: <<activation, creator of the directory it was given>>
    touched,    \* history: [by, creator] for each change of a directory's entries
    CHILD_PID,  \* process.rs: the static CHILD_PID
    child,      \* the child of spawn_and_wait: "none", "running" or "gone", and its pid
    sup,        \* the main thread of a dispatch: its position and its environment
    lis,        \* the signal listener thread: its position in graceful_kill_group
    sent,       \* history: the killpg calls made, oldest first
    ens,        \* ensure_cached_with_imports: the active calls and what they did
    savers,     \* the processes in save_to_cache or remove_cached side by side
    listeners,  \* the listener threads of a process that calls spawn_and_wait again
    arg         \* the input a pure function is applied to

resVars == <<cratelist, ci, stack, paths, visited, rpc, rerr, rsteps, removed>>
concVars == <<writer, reader>>
shimVars == <<host, tmp, acts, nextAct, got, touched>>
procVars == <<CHILD_PID, child, sup, lis, sent>>
cacheProcVars == <<ens, savers>>
vars ==
    <<fs, saved, last, cratelist, ci, stack, paths, visited, rpc, rerr, rsteps, removed,
      writer, reader, host, tmp, acts, nextAct, got, touched,
      CHILD_PID, child, sup, lis, sent, ens, savers, listeners, arg>>

---------------------------------------------------------------------------
(* Bounds of the model. *)

\* longest import list of a manifest the resolver specifications draw
MaxImports == 2
\* longest list of starting references
MaxStart == 2
\* call depth at which the model stops following a recursion
MaxStack == 4

---------------------------------------------------------------------------
(* Text helpers. *)

\* the index of the first element of s equal to c, or 0
RECURSIVE FindFrom(_, _, _)
FindFrom(s, c, i) ==
    IF i > Len(s) THEN 0
    ELSE IF s[i] = c THEN i
    ELSE FindFrom(s, c, i + 1)

Find(s, c) == FindFrom(s, c, 1)

\* the index of the last element of s equal to c, or 0
RECURSIVE RFindFrom(_, _, _)
RFindFrom(s, c, i) ==
    IF i < 1 THEN 0
    ELSE IF s[i] = c THEN i
    ELSE RFindFrom(s, c, i - 1)

RFind(s, c) == RFindFrom(s, c, Len(s))

Whitespace == {" ", "\t", "\n", "\r"}

RECURSIVE TrimStart(_)
TrimStart(s) ==
    IF s # <<>> /\ Head(s) \in Whitespace THEN TrimStart(Tail(s)) ELSE s

RECURSIVE TrimEnd(_)
TrimEnd(s) ==
    IF s # <<>> /\ s[Len(s)] \in Whitespace
    THEN TrimEnd(SubSeq(s, 1, Len(s) - 1))
    ELSE s

Trim(s) == TrimEnd(TrimStart(s))

Range(s) == {s[i] : i \in 1..Len(s)}

\* the sequences over S without repetition, of length at most n
RECURSIVE SeqsNoDup(_, _)
SeqsNoDup(S, n) ==
    IF n = 0 THEN {<<>>}
    ELSE LET shorter == SeqsNoDup(S, n - 1)
         IN shorter \cup
            {Append(p[1], p[2]) :
                p \in {pp \in shorter \X S :
                          Len(pp[1]) = n - 1 /\ pp[2] \notin Range(pp[1])}}

\* the sequences over S of length at most n
RECURSIVE SeqsUpTo(_, _)
SeqsUpTo(S, n) ==
    IF n = 0 THEN {<<>>}
    ELSE LET shorter == SeqsUpTo(S, n - 1)
         IN shorter \cup {Append(q, x) : q \in {r \in shorter : Len(r) = n - 1}, x \in S}

---------------------------------------------------------------------------
(* Crate references: manifest.rs *)

AsciiAlphanumeric ==
    {"a", "b", "c", "d", "e", "f", "g", "h", "i", "j", "k", "l", "m",
     "n", "o", "p", "q", "r", "s", "t", "u", "v", "w", "x", "y", "z",
     "A", "B", "C", "D", "E", "F", "G", "H", "I", "J", "K", "L", "M",
     "N", "O", "P", "Q", "R", "S", "T", "U", "V", "W", "X", "Y", "Z",
     "0", "1", "2", "3", "4", "5", "6", "7", "8", "9"}

\* format!("{}/{}:{}", namespace, crate_name, tag)
display_name(cv) == cv.namespace \o <<"/">> \o cv.crate_name \o <<":">> \o cv.tag

\* validate_crate_component without the character check
validate_crate_component_nonempty(s) == s # <<>>

\* TRUE when the component is accepted
validate_crate_component(s) ==
    /\ s # <<>>
    /\ \A i \in 1..Len(s) : s[i] \in AsciiAlphanumeric \cup {"-", "_", "."}

DefaultTag == <<"d", "e", "f", "a", "u", "l", "t">>

\* parse_registry_path with the default namespace whatever the text names
parse_registry_path_default_namespace(text, default_namespace) ==
    LET path == Trim(text)
        colon == RFind(path, ":")
        name_part == IF colon > 0 THEN SubSeq(path, 1, colon - 1) ELSE path
        tag == IF colon > 0 THEN SubSeq(path, colon + 1, Len(path)) ELSE DefaultTag
        slash == Find(name_part, "/")
        crate_name == IF slash > 0 THEN SubSeq(name_part, slash + 1, Len(name_part))
                      ELSE name_part
    IN [ok |-> TRUE,
        cv |-> [namespace |-> default_namespace, crate_name |-> crate_name, tag |-> tag]]

parse_registry_path(text, default_namespace) ==
    LET path == Trim(text)
        colon == RFind(path, ":")
        name_part == IF colon > 0 THEN SubSeq(path, 1, colon - 1) ELSE path
        tag == IF colon > 0 THEN SubSeq(path, colon + 1, Len(path)) ELSE DefaultTag
        slash == Find(name_part, "/")
        namespace == IF slash > 0 THEN SubSeq(name_part, 1, slash - 1)
                     ELSE default_namespace
        crate_name == IF slash > 0 THEN SubSeq(name_part, slash + 1, Len(name_part))
                      ELSE name_part
    IN IF /\ validate_crate_component(namespace)
          /\ validate_crate_component(crate_name)
          /\ validate_crate_component(tag)
       THEN [ok |-> TRUE,
             cv |-> [namespace |-> namespace, crate_name |-> crate_name, tag |-> tag]]
       ELSE [ok |-> FALSE]

\* config.bulker.default_namespace
config_default_namespace == <<"b", "u", "l", "k", "e", "r">>

\* The references of the model: A and C share a namespace and a crate name,
\* B shares only the namespace.
A == [namespace |-> config_default_namespace, crate_name |-> <<"a">>, tag |-> DefaultTag]
B == [namespace |-> config_default_namespace, crate_name |-> <<"b">>, tag |-> DefaultTag]
C == [namespace |-> config_default_namespace, crate_name |-> <<"a">>, tag |-> <<"t">>]

Refs == {A, B, C}

\* One import string per reference, one of each shape a manifest may use:
\* bare name, namespace/name, namespace/name:tag.
TextA == <<"a">>
TextB == config_default_namespace \o <<"/", "b">>
TextC == config_default_namespace \o <<"/", "a", ":", "t">>

ImportTexts == {TextA, TextB, TextC}

---------------------------------------------------------------------------
(* Results and optional values. *)

None == [some |-> FALSE]
Some(x) == [some |-> TRUE, val |-> x]
Ok(x) == [ok |-> TRUE, val |-> x]
Err(e) == [ok |-> FALSE, err |-> e]

---------------------------------------------------------------------------
(* Manifests and their YAML text: manifest.rs *)

\* PackageCommand: the fields the modelled operations read
PackageCommand(command, docker_image) ==
    [command |-> command, docker_image |-> docker_image]

\* Manifest.manifest: ManifestInner
Manifest(commands, host_commands, imports) ==
    [commands |-> commands, host_commands |-> host_commands, imports |-> imports]

RECURSIVE CommandLines(_)
CommandLines(commands) ==
    IF commands = <<>> THEN <<>>
    ELSE <<[k |-> "command", v |-> Head(commands).command],
           [k |-> "docker_image", v |-> Head(commands).docker_image]>>
         \o CommandLines(Tail(commands))

ItemLines(items) == [i \in 1..Len(items) |-> [k |-> "item", v |-> items[i]]]

\* serde_yaml::to_string(manifest): the lines of the document, in field order
to_yaml(m) ==
    <<[k |-> "manifest"], [k |-> "commands"]>> \o CommandLines(m.commands)
    \o <<[k |-> "host_commands"]>> \o ItemLines(m.host_commands)
    \o <<[k |-> "imports"]>> \o ItemLines(m.imports)

\* The fields of ManifestInner default when the document ends before them; a
\* command entry without its docker_image is an error.
RECURSIVE ParseLines(_, _, _, _, _)
ParseLines(lines, i, section, m, pending) ==
    IF i > Len(lines)
    THEN IF pending.some THEN Err("parse") ELSE Ok(m)
    ELSE LET line == lines[i]
         IN IF line.k \in {"commands", "host_commands", "imports"}
            THEN IF pending.some THEN Err("parse")
                 ELSE ParseLines(lines, i + 1, line.k, m, None)
            ELSE IF line.k = "command"
            THEN IF section # "commands" \/ pending.some THEN Err("parse")
                 ELSE ParseLines(lines, i + 1, section, m, Some(line.v))
            ELSE IF line.k = "docker_image"
            THEN IF ~pending.some THEN Err("parse")
                 ELSE ParseLines(lines, i + 1, section,
                         [m EXCEPT !.commands =
                             Append(@, PackageCommand(pending.val, line.v))],
                         None)
            ELSE IF line.k = "item" /\ section = "host_commands"
            THEN ParseLines(lines, i + 1, section,
                     [m EXCEPT !.host_commands = Append(@, line.v)], pending)
            ELSE IF line.k = "item" /\ section = "imports"
            THEN ParseLines(lines, i + 1, section,
                     [m EXCEPT !.imports = Append(@, line.v)], pending)
            ELSE Err("parse")

\* serde_yaml::from_str::<Manifest>(contents)
from_yaml(lines) ==
    IF Len(lines) < 2 \/ lines[1].k # "manifest" THEN Err("parse")
    ELSE ParseLines(lines, 2, "", Manifest(<<>>, <<>>, <<>>), None)

\* digest::crate_manifest_digest: an order-preserving digest of the
\* (command, image) pairs, modelled by the pairs themselves
crate_manifest_digest(m) ==
    [i \in 1..Len(m.commands) |-> <<m.commands[i].command, m.commands[i].docker_image>>]

---------------------------------------------------------------------------
(* The manifest cache: manifest_cache.rs *)

NoFile == [exists |-> FALSE]
File(content) == [exists |-> TRUE, content |-> content]

\* two references with a "." component, which the parser accepts
D1 == [namespace |-> <<"b","u","l","k","e","r">>, crate_name |-> <<".">>, tag |-> <<"x">>]
D2 == [namespace |-> <<"b","u","l","k","e","r">>, crate_name |-> <<"x">>, tag |-> <<".">>]
\* the references the cache operations are run on
CacheRefs == {A, B, D1, D2}

\* the directory a path names: the file system steps over "." components
RECURSIVE Normalize(_)
Normalize(p) ==
    IF p = <<>> THEN <<>>
    ELSE IF Head(p) = <<".">> THEN Normalize(Tail(p))
    ELSE <<Head(p)>> \o Normalize(Tail(p))

\* Path::parent
Parent(d) == IF d = <<>> THEN <<>> ELSE SubSeq(d, 1, Len(d) - 1)

\* cache_base_dir, the root every path of the model is relative to
cache_base_dir == <<>>

\* manifest_path(cv): the directory that holds manifest.yaml, which
\* digest_sidecar_path(cv, _) shares
manifest_path(cv) == Normalize(<<cv.namespace, cv.crate_name, cv.tag>>)

ManifestPaths == {manifest_path(r) : r \in Refs \cup CacheRefs}

EmptyFs ==
    [files |-> [d \in ManifestPaths |-> NoFile],
     digests |-> [d \in ManifestPaths |-> NoFile],
     dirs |-> {}]

\* std::fs::create_dir_all(dir)
create_dir_all(f, d) ==
    [f EXCEPT !.dirs = @ \cup {SubSeq(d, 1, n) : n \in 0..Len(d)}]

IsPrefix(d, e) == Len(d) < Len(e) /\ SubSeq(e, 1, Len(d)) = d

DirIsEmpty(f, d) ==
    /\ \A e \in f.dirs : ~IsPrefix(d, e)
    /\ d \in ManifestPaths => ~f.files[d].exists /\ ~f.digests[d].exists

\* std::fs::remove_dir(dir), its failure ignored
remove_dir(f, d) ==
    IF d \in f.dirs /\ DirIsEmpty(f, d) THEN [f EXCEPT !.dirs = @ \ {d}] ELSE f

\* std::fs::remove_dir_all(dir)
remove_dir_all(f, d) ==
    [files |-> [e \in ManifestPaths |->
                    IF d = e \/ IsPrefix(d, e) THEN NoFile ELSE f.files[e]],
     digests |-> [e \in ManifestPaths |->
                    IF d = e \/ IsPrefix(d, e) THEN NoFile ELSE f.digests[e]],
     dirs |-> {e \in f.dirs : e # d /\ ~IsPrefix(d, e)}]

\* load_cached: Ok(None) when the path does not exist, Err when the file
\* does not parse
load_cached(f, cv) ==
    LET path == manifest_path(cv)
    IN IF ~f.files[path].exists THEN Ok(None)
       ELSE LET parsed == from_yaml(f.files[path].content)
            IN IF parsed.ok THEN Ok(Some(parsed.val)) ELSE Err("parse")

\* save_to_cache, run to completion
save_to_cache(f, cv, m) ==
    LET path == manifest_path(cv)
        made == create_dir_all(f, path)
        written == [made EXCEPT !.files[path] = File(to_yaml(m))]
    IN [written EXCEPT !.digests[path] = File(crate_manifest_digest(m))]

\* remove_cached: the manifest file, then each of the three directories
\* above it that is empty
remove_cached(f, cv) ==
    LET path == manifest_path(cv)
        unlinked == IF f.files[path].exists THEN [f EXCEPT !.files[path] = NoFile] ELSE f
    IN remove_dir(remove_dir(remove_dir(unlinked, path), Parent(path)),
                  Parent(Parent(path)))

\* crate clean --all
clean_all(f) ==
    IF cache_base_dir \in f.dirs THEN remove_dir_all(f, cache_base_dir) ELSE f

\* ensure_cached with the cached copy returned even when force is set
ensure_cached_ignoring_force(f, cv, force, fetch) ==
    LET cached == load_cached(f, cv)
    IN IF ~cached.ok THEN [fs |-> f, fetched |-> FALSE, result |-> Err("parse")]
       ELSE IF cached.val.some
       THEN [fs |-> f, fetched |-> FALSE, result |-> Ok(cached.val.val)]
       ELSE IF ~fetch.ok THEN [fs |-> f, fetched |-> TRUE, result |-> Err("fetch")]
       ELSE [fs |-> save_to_cache(f, cv, fetch.val), fetched |-> TRUE,
             result |-> Ok(fetch.val)]

\* ensure_cached: fetch is what load_remote_manifest returns if it is called
ensure_cached(f, cv, force, fetch) ==
    LET cached == IF force THEN Ok(None) ELSE load_cached(f, cv)
    IN IF ~cached.ok THEN [fs |-> f, fetched |-> FALSE, result |-> Err("parse")]
       ELSE IF cached.val.some
       THEN [fs |-> f, fetched |-> FALSE, result |-> Ok(cached.val.val)]
       ELSE IF ~fetch.ok THEN [fs |-> f, fetched |-> TRUE, result |-> Err("fetch")]
       ELSE [fs |-> save_to_cache(f, cv, fetch.val), fetched |-> TRUE,
             result |-> Ok(fetch.val)]

---------------------------------------------------------------------------
(* The parts of the state a specification does not use stay as they start. *)

ResolverAtRest ==
    /\ cratelist = <<>>
    /\ ci = 1
    /\ stack = <<>>
    /\ paths = <<>>
    /\ visited = {}
    /\ rpc = "idle"
    /\ rerr = None
    /\ rsteps = 0
    /\ removed = FALSE

ConcAtRest ==
    /\ writer = [pc |-> "none"]
    /\ reader = [pc |-> "none"]

ShimAtRest ==
    /\ host = [which_runs |-> TRUE, on_path |-> {}]
    /\ tmp = <<>>
    /\ acts = <<>>
    /\ nextAct = 1
    /\ got = {}
    /\ touched = {}

ProcAtRest ==
    /\ CHILD_PID = -1
    /\ child = [state |-> "none"]
    /\ sup = [pc |-> "none"]
    /\ lis = [pc |-> "none"]
    /\ sent = <<>>

CacheProcsAtRest ==
    /\ ens = [pc |-> "none"]
    /\ savers = <<>>
    /\ listeners = <<>>

PureAtRest == arg = [f |-> "none"]

---------------------------------------------------------------------------
(* The import resolver: imports.rs *)

\* The resolution depth ceiling of the design (a fixed maximum), scaled to
\* the three references of the model.
MAX_IMPORT_DEPTH == 1

NoError == None
NotInstalled(key) == Some([kind |-> "not_installed", crate |-> key])

\* BulkerConfig::get_crate_entry: the entry of an installed crate, read from
\* the manifest cache: its own location and the imports of its manifest
config_get_crate_entry(f, cv) ==
    LET cached == load_cached(f, cv)
    IN IF cv \in Refs /\ cached.ok /\ cached.val.some
       THEN Some([path |-> cv, imports |-> cached.val.val.imports])
       ELSE None

get_crate_entry(f, cv) == config_get_crate_entry(f, cv)

\* A call of resolve_crate_paths up to its loop over the imports.  st holds
\* stack, paths, visited and err; a call that goes on to its imports leaves a
\* frame on the stack.

\* ... without the visited check
resolve_crate_paths_enter_unguarded(f, cv, st) ==
    LET key == display_name(cv)
        entry == get_crate_entry(f, cv)
    IN IF ~entry.some
       THEN [st EXCEPT !.visited = @ \cup {key}, !.err = NotInstalled(key)]
       ELSE [st EXCEPT !.visited = @ \cup {key},
                       !.paths = Append(@, entry.val.path),
                       !.stack = Append(@, [cv |-> cv, imports |-> entry.val.imports,
                                            i |-> 1])]

\* ... with a crate that is not installed skipped
resolve_crate_paths_enter_skipping(f, cv, st) ==
    LET key == display_name(cv)
        entry == get_crate_entry(f, cv)
    IN IF key \in st.visited THEN st
       ELSE IF ~entry.some
       THEN [st EXCEPT !.visited = @ \cup {key}]
       ELSE [st EXCEPT !.visited = @ \cup {key},
                       !.paths = Append(@, entry.val.path),
                       !.stack = Append(@, [cv |-> cv, imports |-> entry.val.imports,
                                            i |-> 1])]

\* resolve_crate_paths pushing the path of a crate it has already visited
resolve_crate_paths_enter_pushing_again(f, cv, st) ==
    LET key == display_name(cv)
        entry == get_crate_entry(f, cv)
    IN IF ~entry.some
       THEN [st EXCEPT !.visited = @ \cup {key}, !.err = NotInstalled(key)]
       ELSE IF key \in st.visited
       THEN [st EXCEPT !.paths = Append(@, entry.val.path)]
       ELSE [st EXCEPT !.visited = @ \cup {key},
                       !.paths = Append(@, entry.val.path),
                       !.stack = Append(@, [cv |-> cv, imports |-> entry.val.imports,
                                            i |-> 1])]

resolve_crate_paths_enter(f, cv, st) ==
    LET key == display_name(cv)
        entry == get_crate_entry(f, cv)
    IN IF key \in st.visited THEN st
       ELSE IF ~entry.some
       THEN [st EXCEPT !.visited = @ \cup {key}, !.err = NotInstalled(key)]
       ELSE [st EXCEPT !.visited = @ \cup {key},
                       !.paths = Append(@, entry.val.path),
                       !.stack = Append(@, [cv |-> cv, imports |-> entry.val.imports,
                                            i |-> 1])]

ResolverState == [stack |-> stack, paths |-> paths, visited |-> visited, err |-> rerr]

\* the resolver's variables after a call: an error unwinds every active call
AfterCall(st) ==
    /\ paths' = st.paths
    /\ visited' = st.visited
    /\ rerr' = st.err
    /\ stack' = IF st.err.some THEN <<>> ELSE st.stack
    /\ rpc' = IF st.err.some THEN "done" ELSE "run"

\* resolve_paths_with_imports: a resolution starts
ResolveStart(cl) ==
    /\ rpc = "idle"
    /\ removed => cl = cratelist
    /\ cratelist' = cl
    /\ ci' = 1
    /\ stack' = <<>>
    /\ paths' = <<>>
    /\ visited' = {}
    /\ rerr' = NoError
    /\ rpc' = "run"
    /\ rsteps' = 0
    /\ UNCHANGED <<fs, saved, last, removed>>
    /\ UNCHANGED <<concVars, shimVars, procVars, cacheProcVars, listeners, arg>>

\* resolve_paths_with_imports: the loop calls resolve_crate_paths for the
\* next starting reference
ResolveTopCall ==
    /\ rpc = "run"
    /\ stack = <<>>
    /\ ci <= Len(cratelist)
    /\ ci' = ci + 1
    /\ AfterCall(resolve_crate_paths_enter(fs, cratelist[ci], ResolverState))
    /\ rsteps' = rsteps + 1
    /\ UNCHANGED <<fs, saved, last, cratelist, removed>>
    /\ UNCHANGED <<concVars, shimVars, procVars, cacheProcVars, listeners, arg>>

\* ... with the imports of a manifest taken from the last to the first
ResolveImportCall_last_import_first ==
    /\ rpc = "run"
    /\ stack # <<>>
    /\ Len(stack) < MaxStack
    /\ LET top == stack[Len(stack)]
       IN /\ top.i <= Len(top.imports)
          /\ LET import_cv == parse_registry_path(top.imports[Len(top.imports) + 1 - top.i],
                                                  config_default_namespace)
                 advanced == [ResolverState EXCEPT !.stack[Len(stack)].i = top.i + 1]
             IN AfterCall(resolve_crate_paths_enter(fs, import_cv.cv, advanced))
    /\ rsteps' = rsteps + 1
    /\ UNCHANGED <<fs, saved, last, cratelist, ci, removed>>
    /\ UNCHANGED <<concVars, shimVars, procVars, cacheProcVars, listeners, arg>>

\* resolve_crate_paths: the loop parses the next import and calls itself
ResolveImportCall ==
    /\ rpc = "run"
    /\ stack # <<>>
    /\ Len(stack) < MaxStack
    /\ LET top == stack[Len(stack)]
       IN /\ top.i <= Len(top.imports)
          /\ LET import_cv == parse_registry_path(top.imports[top.i],
                                                  config_default_namespace)
                 advanced == [ResolverState EXCEPT !.stack[Len(stack)].i = top.i + 1]
             IN AfterCall(resolve_crate_paths_enter(fs, import_cv.cv, advanced))
    /\ rsteps' = rsteps + 1
    /\ UNCHANGED <<fs, saved, last, cratelist, ci, removed>>
    /\ UNCHANGED <<concVars, shimVars, procVars, cacheProcVars, listeners, arg>>

\* resolve_crate_paths: the loop is over, the call returns
ResolveReturn ==
    /\ rpc = "run"
    /\ stack # <<>>
    /\ stack[Len(stack)].i > Len(stack[Len(stack)].imports)
    /\ stack' = SubSeq(stack, 1, Len(stack) - 1)
    /\ rsteps' = rsteps + 1
    /\ UNCHANGED <<fs, saved, last, cratelist, ci, paths, visited, rpc, rerr, removed>>
    /\ UNCHANGED <<concVars, shimVars, procVars, cacheProcVars, listeners, arg>>

\* resolve_paths_with_imports: every starting reference is resolved
ResolveFinish ==
    /\ rpc = "run"
    /\ stack = <<>>
    /\ ci > Len(cratelist)
    /\ rpc' = "done"
    /\ rsteps' = rsteps + 1
    /\ UNCHANGED <<fs, saved, last, cratelist, ci, stack, paths, visited, rerr, removed>>
    /\ UNCHANGED <<concVars, shimVars, procVars, cacheProcVars, listeners, arg>>

\* crate clean <ref> after a successful resolution: one of the resolved
\* crates loses its cached manifest, and the same list is resolved again
RemoveResolved(cv) ==
    /\ rpc = "done"
    /\ ~rerr.some
    /\ ~removed
    /\ \E i \in 1..Len(paths) : paths[i] = cv
    /\ fs' = remove_cached(fs, cv)
    /\ saved' = [saved EXCEPT ![cv] = None]
    /\ removed' = TRUE
    /\ rpc' = "idle"
    /\ UNCHANGED <<last, cratelist, ci, stack, paths, visited, rerr, rsteps>>
    /\ UNCHANGED <<concVars, shimVars, procVars, cacheProcVars, listeners, arg>>

ImportLists == SeqsNoDup(ImportTexts, MaxImports)

\* the cache after each reference with g[r].some had a manifest with the
\* imports g[r].val saved
RECURSIVE FsOfManifests(_, _)
FsOfManifests(g, todo) ==
    IF todo = {} THEN EmptyFs
    ELSE LET r == CHOOSE x \in todo : TRUE
             rest == FsOfManifests(g, todo \ {r})
         IN IF g[r].some THEN save_to_cache(rest, r, g[r].val) ELSE rest

SavedOf(g) == g

ImportGraphs ==
    [Refs -> {None} \cup {Some(Manifest(<<>>, <<>>, l)) : l \in ImportLists}]

InitResolve ==
    /\ \E g \in ImportGraphs : fs = FsOfManifests(g, Refs) /\ saved = SavedOf(g)
    /\ last = [op |-> "init"]
    /\ ResolverAtRest
    /\ ProcAtRest
    /\ CacheProcsAtRest
    /\ PureAtRest
    /\ ConcAtRest
    /\ ShimAtRest

NextResolve ==
    \/ \E cl \in SeqsUpTo(Refs, MaxStart) \ {<<>>} : ResolveStart(cl)
    \/ ResolveTopCall
    \/ ResolveImportCall
    \/ ResolveReturn
    \/ ResolveFinish
    \/ \E cv \in Refs : RemoveResolved(cv)

SpecResolve == InitResolve /\ [][NextResolve]_vars

---------------------------------------------------------------------------
(* Command lookup across imports: imports.rs, shimlink.rs *)

\* resolve_crate_paths with the calls it makes for its imports, run to
\* completion: st holds paths, visited and err, and an empty stack
RECURSIVE resolve_crate_paths(_, _, _)
RECURSIVE resolve_imports(_, _, _, _)
resolve_crate_paths(f, cv, st) ==
    LET entered == resolve_crate_paths_enter(f, cv, st)
    IN IF entered.err.some \/ entered.stack = <<>> THEN entered
       ELSE resolve_imports(f, entered.stack[1].imports, 1,
                            [entered EXCEPT !.stack = <<>>])

\* the loop of resolve_crate_paths over the imports: an error ends it
resolve_imports(f, imports, i, st) ==
    IF i > Len(imports) \/ st.err.some THEN st
    ELSE LET import_cv == parse_registry_path(imports[i], config_default_namespace)
         IN resolve_imports(f, imports, i + 1, resolve_crate_paths(f, import_cv.cv, st))

\* the loop over the starting references, with one visited set for all
RECURSIVE resolve_each(_, _, _, _)
resolve_each(f, cl, i, st) ==
    IF i > Len(cl) \/ st.err.some THEN st
    ELSE resolve_each(f, cl, i + 1, resolve_crate_paths(f, cl[i], st))

\* imports::resolve_cratevars_with_imports: the references of the crates
\* resolve_paths_with_imports visits, in the order it reaches them
resolve_cratevars_with_imports(f, cl) ==
    LET st == resolve_each(f, cl, 1,
                  [stack |-> <<>>, paths |-> <<>>, visited |-> {}, err |-> NoError])
    IN IF st.err.some THEN Err(st.err.val) ELSE Ok(st.paths)

CommandNotFound(command_name, primary_cv) ==
    [kind |-> "command_not_found", command |-> command_name,
     crate |-> display_name(primary_cv)]

\* commands.iter().find(|c| c.command == command_name)
RECURSIVE find_command(_, _)
find_command(commands, command_name) ==
    IF commands = <<>> THEN None
    ELSE IF Head(commands).command = command_name THEN Some(Head(commands))
    ELSE find_command(Tail(commands), command_name)

\* the loop of find_command_in_crate_with_imports over the resolved crates
RECURSIVE find_in_crates(_, _, _, _, _)
find_in_crates(f, all_crates, i, command_name, primary_cv) ==
    IF i > Len(all_crates) THEN Err(CommandNotFound(command_name, primary_cv))
    ELSE LET cached == load_cached(f, all_crates[i])
             pkg == find_command(cached.val.val.commands, command_name)
         IN IF ~cached.ok THEN Err([kind |-> "parse", crate |-> display_name(all_crates[i])])
            ELSE IF cached.val.some /\ pkg.some THEN Ok(pkg.val)
            ELSE find_in_crates(f, all_crates, i + 1, command_name, primary_cv)

Reverse(q) == [i \in 1..Len(q) |-> q[Len(q) + 1 - i]]

\* ... with the resolved crates scanned from the last to the first
find_command_in_crate_with_imports_backwards(f, primary_cv, command_name) ==
    LET all_crates == resolve_cratevars_with_imports(f, <<primary_cv>>)
    IN IF ~all_crates.ok THEN Err(all_crates.err)
       ELSE find_in_crates(f, Reverse(all_crates.val), 1, command_name, primary_cv)

\* ... with the primary crate scanned and its imports left out
find_command_in_crate_with_imports_primary_only(f, primary_cv, command_name) ==
    LET all_crates == resolve_cratevars_with_imports(f, <<primary_cv>>)
    IN IF ~all_crates.ok THEN Err(all_crates.err)
       ELSE find_in_crates(f, <<primary_cv>>, 1, command_name, primary_cv)

find_command_in_crate_with_imports(f, primary_cv, command_name) ==
    LET all_crates == resolve_cratevars_with_imports(f, <<primary_cv>>)
    IN IF ~all_crates.ok THEN Err(all_crates.err)
       ELSE find_in_crates(f, all_crates.val, 1, command_name, primary_cv)

CommandNames == {"cat", "samtools"}

\* the image a crate's manifest gives its commands: one per crate, so that a
\* definition tells the manifest it came from
ImageOf(cv) == display_name(cv)

CommandsOf(cv, names) ==
    [i \in 1..Len(names) |-> PackageCommand(names[i], ImageOf(cv))]

\* what each cached manifest declares: at most one command, and its imports
LookupShapes ==
    [Refs -> {None} \cup {Some([commands |-> c, imports |-> l]) :
                            c \in SeqsUpTo(CommandNames, 1), l \in ImportLists}]

ManifestsOfShapes(g) ==
    [r \in Refs |->
        IF g[r].some
        THEN Some(Manifest(CommandsOf(r, g[r].val.commands), <<>>, g[r].val.imports))
        ELSE None]

\* shimlink_exec looks the invoked command up from the active crate, once
FindCommand(cv, command_name) ==
    /\ last.op = "init"
    /\ last' = [op |-> "find", cv |-> cv, command |-> command_name,
                result |-> find_command_in_crate_with_imports(fs, cv, command_name)]
    /\ UNCHANGED <<fs, saved, resVars, concVars, shimVars, procVars, cacheProcVars, listeners, arg>>

InitLookup ==
    /\ \E g \in LookupShapes :
            /\ fs = FsOfManifests(ManifestsOfShapes(g), Refs)
            /\ saved = ManifestsOfShapes(g)
    /\ last = [op |-> "init"]
    /\ ResolverAtRest
    /\ ProcAtRest
    /\ CacheProcsAtRest
    /\ PureAtRest
    /\ ConcAtRest
    /\ ShimAtRest

NextLookup == \E cv \in Refs, command_name \in CommandNames : FindCommand(cv, command_name)

SpecLookup == InitLookup /\ [][NextLookup]_vars

---------------------------------------------------------------------------
(* The cache operations, one at a time: manifest_cache.rs, crate_cmd/clean.rs *)

M1 == Manifest(<<PackageCommand("cat", "alpine")>>, <<>>, <<>>)
M2 ==
    Manifest(<<PackageCommand("samtools", "biocontainers"), PackageCommand("cat", "busybox")>>,
             <<"ls">>, <<TextB>>)
CacheManifests == {M1, M2}

\* what load_remote_manifest can return: a manifest or a failure
Fetches == {Err("fetch")} \cup {Ok(m) : m \in CacheManifests}

ResolverIdle == UNCHANGED <<resVars, concVars, shimVars, procVars, cacheProcVars, listeners, arg>>

\* save_to_cache(cv, m)
Save(cv, m) ==
    /\ fs' = save_to_cache(fs, cv, m)
    /\ saved' = [saved EXCEPT ![cv] = Some(m)]
    /\ last' = [op |-> "save", cv |-> cv]
    /\ ResolverIdle

\* crate clean <cv>: remove_cached(cv)
Remove(cv) ==
    /\ fs' = remove_cached(fs, cv)
    /\ saved' = [saved EXCEPT ![cv] = None]
    /\ last' = [op |-> "remove", cv |-> cv]
    /\ ResolverIdle

\* crate clean --all
CleanAll ==
    /\ fs' = clean_all(fs)
    /\ saved' = [r \in CacheRefs |-> None]
    /\ last' = [op |-> "clean_all"]
    /\ ResolverIdle

\* ensure_cached(config, cv, force), the registry answering fetch if asked
Ensure(cv, force, fetch) ==
    LET done == ensure_cached(fs, cv, force, fetch)
    IN /\ fs' = done.fs
       /\ saved' = IF (force \/ ~saved[cv].some) /\ fetch.ok
                   THEN [saved EXCEPT ![cv] = Some(fetch.val)]
                   ELSE saved
       /\ last' = [op |-> "ensure", cv |-> cv, force |-> force, fetch |-> fetch,
                   before |-> fs, fetched |-> done.fetched, result |-> done.result]
       /\ ResolverIdle

Init ==
    /\ fs = EmptyFs
    /\ saved = [r \in CacheRefs |-> None]
    /\ last = [op |-> "init"]
    /\ ResolverAtRest
    /\ ProcAtRest
    /\ CacheProcsAtRest
    /\ PureAtRest
    /\ ConcAtRest
    /\ ShimAtRest

Next ==
    \/ \E cv \in CacheRefs, m \in CacheManifests : Save(cv, m)
    \/ \E cv \in CacheRefs : Remove(cv)
    \/ CleanAll
    \/ \E cv \in CacheRefs, force \in BOOLEAN, fetch \in Fetches : Ensure(cv, force, fetch)

Spec == Init /\ [][Next]_vars

---------------------------------------------------------------------------
(* save_to_cache in one process while load_cached runs in another:
   manifest_cache.rs *)

OthersIdle == UNCHANGED <<saved, resVars, shimVars, procVars, cacheProcVars, listeners, arg>>

\* the lines of the file once n lines of the new text are written
Written(m, n) == File(SubSeq(to_yaml(m), 1, n))

\* save_to_cache: create_dir_all(parent)
WriterMkdir ==
    /\ writer.pc = "start"
    /\ fs' = create_dir_all(fs, manifest_path(writer.cv))
    /\ writer' = [writer EXCEPT !.pc = "open"]
    /\ UNCHANGED <<last, reader>>
    /\ OthersIdle

\* std::fs::write: the file is opened, created or truncated to nothing
WriterOpen ==
    /\ writer.pc = "open"
    /\ fs' = [fs EXCEPT !.files[manifest_path(writer.cv)] = Written(writer.m, 0)]
    /\ writer' = [writer EXCEPT !.pc = "write", !.n = 0]
    /\ UNCHANGED <<last, reader>>
    /\ OthersIdle

\* std::fs::write: write_all hands the text to the file in one or more
\* writes; a write takes k more lines of it
WriterWrite(k) ==
    /\ writer.pc = "write"
    /\ writer.n + k <= Len(to_yaml(writer.m))
    /\ fs' = [fs EXCEPT !.files[manifest_path(writer.cv)] = Written(writer.m, writer.n + k)]
    /\ writer' = [writer EXCEPT
                    !.n = writer.n + k,
                    !.pc = IF writer.n + k = Len(to_yaml(writer.m)) THEN "sidecar" ELSE "write"]
    /\ UNCHANGED <<last, reader>>
    /\ OthersIdle

\* save_to_cache: the digest sidecar is written and the call returns
WriterSidecar ==
    /\ writer.pc = "sidecar"
    /\ fs' = [fs EXCEPT !.digests[manifest_path(writer.cv)] =
                            File(crate_manifest_digest(writer.m))]
    /\ writer' = [writer EXCEPT !.pc = "done"]
    /\ UNCHANGED <<last, reader>>
    /\ OthersIdle

\* load_cached: path.exists()
ReaderExists ==
    /\ reader.pc = "idle"
    /\ IF fs.files[manifest_path(writer.cv)].exists
       THEN /\ reader' = [reader EXCEPT !.pc = "read"]
            /\ UNCHANGED last
       ELSE /\ last' = [op |-> "load", result |-> Ok(None)]
            /\ UNCHANGED reader
    /\ UNCHANGED <<fs, writer>>
    /\ OthersIdle

\* load_cached: read_to_string and serde_yaml::from_str
ReaderRead ==
    /\ reader.pc = "read"
    /\ last' = [op |-> "load", result |-> load_cached(fs, writer.cv)]
    /\ reader' = [reader EXCEPT !.pc = "idle"]
    /\ UNCHANGED <<fs, writer>>
    /\ OthersIdle

\* the longest text a save writes
MaxYamlLines == Len(to_yaml(M2))

InitConc ==
    /\ \E prev \in {None} \cup {Some(m) : m \in CacheManifests}, m \in CacheManifests :
            /\ fs = IF prev.some THEN save_to_cache(EmptyFs, A, prev.val) ELSE EmptyFs
            /\ saved = [r \in CacheRefs |-> IF r = A THEN prev ELSE None]
            /\ writer = [pc |-> "start", cv |-> A, m |-> m, prev |-> prev, n |-> 0]
    /\ reader = [pc |-> "idle"]
    /\ last = [op |-> "init"]
    /\ ResolverAtRest
    /\ ProcAtRest
    /\ CacheProcsAtRest
    /\ PureAtRest
    /\ ShimAtRest

NextConc ==
    \/ WriterMkdir
    \/ WriterOpen
    \/ \E k \in 1..MaxYamlLines : WriterWrite(k)
    \/ WriterSidecar
    \/ ReaderExists
    \/ ReaderRead

SpecConc == InitConc /\ [][NextConc]_vars

---------------------------------------------------------------------------
(* Shimlink directories: shimlink.rs, activate.rs, commands/exec.rs *)

NoDir == [exists |-> FALSE]
\* a directory: the activation that created it and its entries, each a
\* symlink [name, target]
Dir(creator, entries) == [exists |-> TRUE, creator |-> creator, entries |-> entries]

\* std::env::current_exe()
bulker_path == "bulker"

\* what `which <host_cmd>` prints for a command on the host's PATH
HostPath(host_cmd) == "/usr/bin/" \o host_cmd

\* let _ = remove_file(link_path); symlink(target, link_path)
symlink_replacing(entries, name, target) ==
    {e \in entries : e.name # name} \cup {[name |-> name, target |-> target]}

\* create_shimlink_dir: the loop over the container commands, without the
\* "_" links
RECURSIVE link_commands_plain(_, _)
link_commands_plain(entries, commands) ==
    IF commands = <<>> THEN entries
    ELSE link_commands_plain(
            symlink_replacing(entries, Head(commands).command, bulker_path),
            Tail(commands))

\* create_shimlink_dir: the loop over the container commands
RECURSIVE link_commands(_, _)
link_commands(entries, commands) ==
    IF commands = <<>> THEN entries
    ELSE LET named == symlink_replacing(entries, Head(commands).command, bulker_path)
             shell == symlink_replacing(named, "_" \o Head(commands).command, bulker_path)
         IN link_commands(shell, Tail(commands))

\* create_shimlink_dir: the loop over the host commands; `which` may fail to
\* run, or run and not find the command, and either way no link is made
RECURSIVE link_host_commands(_, _, _)
link_host_commands(entries, host_commands, env) ==
    IF host_commands = <<>> THEN entries
    ELSE LET host_cmd == Head(host_commands)
             linked == IF env.which_runs /\ host_cmd \in env.on_path
                       THEN symlink_replacing(entries, host_cmd, HostPath(host_cmd))
                       ELSE entries
         IN link_host_commands(linked, Tail(host_commands), env)

\* create_shimlink_dir(manifest, dir) on the entries of dir
create_shimlink_dir(entries, manifest, env) ==
    link_host_commands(link_commands(entries, manifest.commands),
                       manifest.host_commands, env)

ShimDirName == "shims"

\* the entries of the directory named n, none if there is no such directory
EntriesOf(t, n) == IF t[n].exists THEN t[n].entries ELSE {}

\* create_shimlink_dir(manifest, dir), the directory created if it is not there
CreateShimlinkDir(manifest) ==
    /\ LET before == EntriesOf(tmp, ShimDirName)
           after == create_shimlink_dir(before, manifest, host)
       IN /\ tmp' = [tmp EXCEPT ![ShimDirName] =
                        Dir(IF @.exists THEN @.creator ELSE 0, after)]
          /\ last' = [op |-> "create", manifest |-> manifest, fresh |-> ~tmp[ShimDirName].exists,
                      after |-> after, result |-> Ok(TRUE)]
    /\ UNCHANGED <<fs, saved, resVars, concVars, host, acts, nextAct, got, touched, procVars, cacheProcVars, listeners, arg>>

ShimCommands == {"cat", "_cat", "samtools"}
ShimHostCommands == {"ls", "cat"}

\* manifests whose container commands have different names, as a manifest's
\* commands must
ShimManifests ==
    {Manifest(CommandsOf(A, c), h, <<>>) :
        c \in SeqsNoDup(ShimCommands, 2), h \in SeqsNoDup(ShimHostCommands, 1)}

HostEnvs ==
    {[which_runs |-> w, on_path |-> p] : w \in BOOLEAN, p \in SUBSET ShimHostCommands}

InitShim ==
    /\ host \in HostEnvs
    /\ tmp = [n \in {ShimDirName} |-> NoDir]
    /\ acts = <<>>
    /\ nextAct = 1
    /\ got = {}
    /\ touched = {}
    /\ fs = EmptyFs
    /\ saved = [r \in CacheRefs |-> None]
    /\ last = [op |-> "init"]
    /\ ResolverAtRest
    /\ ProcAtRest
    /\ CacheProcsAtRest
    /\ PureAtRest
    /\ ConcAtRest

NextShim == \E manifest \in ShimManifests : CreateShimlinkDir(manifest)

SpecShim == InitShim /\ [][NextShim]_vars

---------------------------------------------------------------------------
(* Activations side by side: activate.rs, commands/exec.rs *)

\* most activations a behaviour starts
MaxActs == 3

Procs == {"p", "q"}

\* the names tempfile draws from for a directory with the prefix "bulker_"
TmpNames == {"bulker_a", "bulker_b"}

\* a directory made with one fixed name, and taken over when it is there
tempdir_shared(t, n, id) ==
    LET name == CHOOSE x \in TmpNames : TRUE
    IN [ok |-> TRUE, name |-> name,
        tmp |-> IF t[name].exists THEN t ELSE [t EXCEPT ![name] = Dir(id, {})]]

\* tempfile::Builder::new().prefix("bulker_").tempdir(): n is the name drawn;
\* the directory is made only if nothing has that name, and another name is
\* drawn otherwise
tempdir(t, n, id) ==
    IF t[n].exists THEN [ok |-> FALSE, name |-> n, tmp |-> t]
    ELSE [ok |-> TRUE, name |-> n, tmp |-> [t EXCEPT ![n] = Dir(id, {})]]

\* the manifests an activation resolves its crate list to
ActivationManifests ==
    {<<M1>>, <<M2>>, <<M2, M1>>}

ActIdle == [pc |-> "idle"]

ActivateOthersIdle == UNCHANGED <<fs, saved, last, resVars, concVars, host, procVars, cacheProcVars, listeners, arg>>

\* get_new_path: the shimlink directory is made
Tempdir(p, n) ==
    /\ acts[p].pc = "idle"
    /\ nextAct <= MaxActs
    /\ LET made == tempdir(tmp, n, nextAct)
       IN /\ made.ok
          /\ tmp' = made.tmp
          /\ acts' = [acts EXCEPT ![p] = [pc |-> "made", id |-> nextAct, dir |-> made.name]]
          /\ got' = got \cup {<<nextAct, made.tmp[made.name].creator>>}
    /\ nextAct' = nextAct + 1
    /\ UNCHANGED touched
    /\ ActivateOthersIdle

\* get_new_path: the manifests are fetched and the crate list is resolved
Resolved(p, manifests) ==
    /\ acts[p].pc = "made"
    /\ acts' = [acts EXCEPT ![p] = [pc |-> "populate", id |-> @.id, dir |-> @.dir,
                                    todo |-> manifests]]
    /\ UNCHANGED <<tmp, nextAct, got, touched>>
    /\ ActivateOthersIdle

\* get_new_path: fetching or resolving fails and the call returns the error;
\* the directory stays
ResolveFails(p) ==
    /\ acts[p].pc = "made"
    /\ acts' = [acts EXCEPT ![p] = ActIdle]
    /\ UNCHANGED <<tmp, nextAct, got, touched>>
    /\ ActivateOthersIdle

\* get_new_path: create_shimlink_dir for the next resolved manifest, on the
\* directory the activation's path names
Populate(p) ==
    /\ acts[p].pc = "populate"
    /\ acts[p].todo # <<>>
    /\ LET dir == acts[p].dir
           target == IF tmp[dir].exists THEN tmp[dir] ELSE Dir(acts[p].id, {})
       IN /\ tmp' = [tmp EXCEPT ![dir] =
                        Dir(target.creator,
                            create_shimlink_dir(target.entries, Head(acts[p].todo), host))]
          /\ touched' = touched \cup {[by |-> acts[p].id, creator |-> target.creator]}
    /\ acts' = [acts EXCEPT ![p].todo = Tail(@)]
    /\ UNCHANGED <<nextAct, got>>
    /\ ActivateOthersIdle

\* get_new_path returns: the directory is on the PATH of the session
Ready(p) ==
    /\ acts[p].pc = "populate"
    /\ acts[p].todo = <<>>
    /\ acts' = [acts EXCEPT ![p].pc = "active"]
    /\ UNCHANGED <<tmp, nextAct, got, touched>>
    /\ ActivateOthersIdle

\* exec: the command is over and remove_dir_all(shimdir) takes the directory
\* of that name away
Cleanup(p) ==
    /\ acts[p].pc = "active"
    /\ LET dir == acts[p].dir
       IN IF tmp[dir].exists
          THEN /\ tmp' = [tmp EXCEPT ![dir] = NoDir]
               /\ touched' = touched \cup {[by |-> acts[p].id, creator |-> tmp[dir].creator]}
          ELSE UNCHANGED <<tmp, touched>>
    /\ acts' = [acts EXCEPT ![p] = ActIdle]
    /\ UNCHANGED <<nextAct, got>>
    /\ ActivateOthersIdle

\* exec: spawn_shell_and_wait fails to spawn the command and `?` returns the
\* error before remove_dir_all; the directory stays
ExecSpawnFails(p) ==
    /\ acts[p].pc = "active"
    /\ acts' = [acts EXCEPT ![p] = ActIdle]
    /\ UNCHANGED <<tmp, nextAct, got, touched>>
    /\ ActivateOthersIdle

InitActivate ==
    /\ host = [which_runs |-> TRUE, on_path |-> ShimHostCommands]
    /\ tmp = [n \in TmpNames |-> NoDir]
    /\ acts = [p \in Procs |-> ActIdle]
    /\ nextAct = 1
    /\ got = {}
    /\ touched = {}
    /\ fs = EmptyFs
    /\ saved = [r \in CacheRefs |-> None]
    /\ last = [op |-> "init"]
    /\ ResolverAtRest
    /\ ProcAtRest
    /\ CacheProcsAtRest
    /\ PureAtRest
    /\ ConcAtRest

NextActivate ==
    \/ \E p \in Procs, n \in TmpNames : Tempdir(p, n)
    \/ \E p \in Procs, manifests \in ActivationManifests : Resolved(p, manifests)
    \/ \E p \in Procs : ResolveFails(p)
    \/ \E p \in Procs : Populate(p)
    \/ \E p \in Procs : Ready(p)
    \/ \E p \in Procs : Cleanup(p)
    \/ \E p \in Procs : ExecSpawnFails(p)

SpecActivate == InitActivate /\ [][NextActivate]_vars

---------------------------------------------------------------------------
(* The process supervisor and the signal listener: process.rs, and the end
   of shimlink_exec that reaches it.  The main thread of a dispatch builds
   the invocation and prints it or hands it to spawn_and_wait; the listener
   thread forwards SIGINT and SIGTERM to the child's process group.  The main
   thread sits in child.wait() while the child runs, so the child's exit and
   its collection are one step: from then on no process has the child's pid. *)

\* the signals the listener forwards among those it is sent
MaxSignals == 2

\* the liveness probes of the one-second wait; the half-second wait has half
MaxTicks == 2

\* process.rs 16-20: the escalation, each signal with the probes of its wait
Escalation ==
    << [signal |-> "SIGINT",  ticks |-> MaxTicks],
       [signal |-> "SIGTERM", ticks |-> MaxTicks],
       [signal |-> "SIGKILL", ticks |-> (MaxTicks + 1) \div 2] >>

\* the pid the spawned child gets
ChildPid == 7

NoChild == [state |-> "none"]

\* kill(pgid, None).is_ok(): the signal-zero probe.  The pid -1 stands for
\* every process the caller may signal, so the probe of -1 succeeds.
kill_probe_never_fails(c, pgid) == TRUE

kill_probe(c, pgid) ==
    \/ pgid = -1
    \/ c.state = "running" /\ c.pid = pgid

\* setup_signal_forwarding: the listener calls graceful_kill_group for this pid
forwards_any_pid(pid) == TRUE

forwards(pid) == pid > 0

\* shimlink_exec: std::env::var("BULKER_PRINT_COMMAND").is_ok()
print_command_ignored(env) == FALSE

print_command(env) == "BULKER_PRINT_COMMAND" \in env

\* the listener between two signals
Listening(n) ==
    [pc |-> "listen", n |-> n, i |-> 1, waited |-> 0, pgid |-> -1, probed |-> FALSE,
     sigs |-> <<>>, at |-> "none", cap |-> Len(Escalation)]

\* the main thread is between setup_signal_forwarding and process::exit
ListenerRuns == sup.pc \in {"spawn", "store", "wait", "exit"}

SupOthersIdle ==
    UNCHANGED <<fs, saved, last, resVars, concVars, shimVars, cacheProcVars, listeners, arg>>

\* shimlink_exec up to the built invocation: an earlier step fails (no
\* BULKERCRATE, no such command), or the invocation is printed, or it is
\* handed to spawn_and_wait
Dispatch ==
    /\ sup.pc = "start"
    /\ \E built \in BOOLEAN :
            sup' = IF ~built THEN [sup EXCEPT !.pc = "failed"]
                   ELSE IF print_command(sup.env)
                        THEN [sup EXCEPT !.pc = "returned", !.printed = TRUE]
                        ELSE [sup EXCEPT !.pc = "setup"]
    /\ UNCHANGED <<CHILD_PID, child, lis, sent>>
    /\ SupOthersIdle

\* a SIGINT or SIGTERM before the handlers are registered ends the process
SignalBeforeSetup ==
    /\ sup.pc \in {"start", "setup"}
    /\ sup' = [sup EXCEPT !.pc = "killed"]
    /\ UNCHANGED <<CHILD_PID, child, lis, sent>>
    /\ SupOthersIdle

\* spawn_and_wait: setup_signal_forwarding registers the handlers and starts
\* the listener thread
SetupSignalForwarding ==
    /\ sup.pc = "setup"
    /\ sup' = [sup EXCEPT !.pc = "spawn"]
    /\ lis' = Listening(0)
    /\ UNCHANGED <<CHILD_PID, child, sent>>
    /\ SupOthersIdle

\* spawn_and_wait: Command::spawn in a new session, or its failure
Spawn ==
    /\ sup.pc = "spawn"
    /\ \E ok \in BOOLEAN :
            IF ok
            THEN /\ child' = [state |-> "running", pid |-> ChildPid]
                 /\ sup' = [sup EXCEPT !.pc = "store"]
            ELSE /\ child' = child
                 /\ sup' = [sup EXCEPT !.pc = "exited"]
    /\ UNCHANGED <<CHILD_PID, lis, sent>>
    /\ SupOthersIdle

\* spawn_and_wait: CHILD_PID.store(child_pid)
StoreChildPid ==
    /\ sup.pc = "store"
    /\ CHILD_PID' = child.pid
    /\ sup' = [sup EXCEPT !.pc = "wait"]
    /\ UNCHANGED <<child, lis, sent>>
    /\ SupOthersIdle

\* the child ends, of itself or by a signal; the history field cap keeps the
\* signals the running escalation may still come to: those sent, and the one
\* whose probe has already succeeded
ChildExits ==
    /\ child.state = "running"
    /\ child' = [child EXCEPT !.state = "gone"]
    /\ lis' = IF lis.pc \in {"probe", "send", "wait"}
              THEN [lis EXCEPT !.cap = Len(lis.sigs) + (IF lis.pc = "send" THEN 1 ELSE 0)]
              ELSE lis
    /\ UNCHANGED <<CHILD_PID, sup, sent>>
    /\ SupOthersIdle

\* spawn_and_wait: child.wait() returns
WaitReturns ==
    /\ sup.pc = "wait"
    /\ child.state = "gone"
    /\ sup' = [sup EXCEPT !.pc = "exit"]
    /\ UNCHANGED <<CHILD_PID, child, lis, sent>>
    /\ SupOthersIdle

\* std::process::exit(exit_code): the listener thread ends with the process
ProcessExit ==
    /\ sup.pc = "exit"
    /\ sup' = [sup EXCEPT !.pc = "exited"]
    /\ UNCHANGED <<CHILD_PID, child, lis, sent>>
    /\ SupOthersIdle

\* the listener is handed a signal and loads CHILD_PID
ListenerReceives ==
    /\ ListenerRuns
    /\ lis.pc = "listen"
    /\ lis.n < MaxSignals
    /\ lis' = IF forwards(CHILD_PID)
              THEN [Listening(lis.n + 1) EXCEPT
                        !.pc = "probe", !.pgid = CHILD_PID, !.at = child.state]
              ELSE [Listening(lis.n + 1) EXCEPT !.at = child.state]
    /\ UNCHANGED <<CHILD_PID, child, sup, sent>>
    /\ SupOthersIdle

\* graceful_kill_group: the probe at the top of the loop
EscalationProbe ==
    /\ ListenerRuns
    /\ lis.pc = "probe"
    /\ lis' = IF kill_probe(child, lis.pgid)
              THEN [lis EXCEPT !.pc = "send", !.probed = TRUE]
              ELSE [lis EXCEPT !.pc = "listen"]
    /\ UNCHANGED <<CHILD_PID, child, sup, sent>>
    /\ SupOthersIdle

\* graceful_kill_group: killpg(pgid, signal)
EscalationSend ==
    /\ ListenerRuns
    /\ lis.pc = "send"
    /\ lis' = [lis EXCEPT !.pc = "wait", !.waited = 0, !.probed = FALSE,
                          !.sigs = Append(@, Escalation[lis.i].signal)]
    /\ sent' = Append(sent, [signal |-> Escalation[lis.i].signal,
                             pgid |-> lis.pgid,
                             k |-> lis.i,
                             waited |-> lis.waited,
                             probed |-> lis.probed,
                             at |-> lis.at])
    /\ UNCHANGED <<CHILD_PID, child, sup>>
    /\ SupOthersIdle

\* graceful_kill_group: one round of the wait loop, a probe and a sleep, or
\* the end of the wait
EscalationWait ==
    /\ ListenerRuns
    /\ lis.pc = "wait"
    /\ lis' = IF lis.waited < Escalation[lis.i].ticks
              THEN IF kill_probe(child, lis.pgid)
                   THEN [lis EXCEPT !.waited = @ + 1]
                   ELSE [lis EXCEPT !.pc = "listen"]
              ELSE IF lis.i < Len(Escalation)
                   THEN [lis EXCEPT !.pc = "probe", !.i = @ + 1]
                   ELSE [lis EXCEPT !.pc = "listen"]
    /\ UNCHANGED <<CHILD_PID, child, sup, sent>>
    /\ SupOthersIdle

\* the environments a dispatch runs in: commands/exec.rs sets the toggle
DispatchEnvs == SUBSET {"BULKER_PRINT_COMMAND", "BULKERCRATE"}

InitSupervise ==
    /\ fs = EmptyFs
    /\ saved = [r \in CacheRefs |-> None]
    /\ last = [op |-> "init"]
    /\ ResolverAtRest
    /\ ConcAtRest
    /\ ShimAtRest
    /\ PureAtRest
    /\ CacheProcsAtRest
    /\ CHILD_PID = -1
    /\ child = NoChild
    /\ \E env \in DispatchEnvs : sup = [pc |-> "start", env |-> env, printed |-> FALSE]
    /\ lis = [pc |-> "none"]
    /\ sent = <<>>

NextSupervise ==
    \/ Dispatch
    \/ SignalBeforeSetup
    \/ SetupSignalForwarding
    \/ Spawn
    \/ StoreChildPid
    \/ ChildExits
    \/ WaitReturns
    \/ ProcessExit
    \/ ListenerReceives
    \/ EscalationProbe
    \/ EscalationSend
    \/ EscalationWait

SpecSupervise == InitSupervise /\ [][NextSupervise]_vars

---------------------------------------------------------------------------
(* spawn_and_wait called again in the same process: process.rs.  Each
   Signals instance of a process is handed every SIGINT and SIGTERM the
   process receives.  Of graceful_kill_group only the first probe and killpg
   are followed here; the specification above follows the rest. *)

\* the calls of spawn_and_wait one process makes
MaxCalls == 2

\* setup_signal_forwarding: Signals::new and thread::spawn
setup_signal_forwarding(ls) == Append(ls, [pending |-> <<>>])

RespawnOthersIdle ==
    UNCHANGED <<fs, saved, last, resVars, concVars, shimVars, cacheProcVars, lis, arg>>

\* spawn_and_wait is called: setup_signal_forwarding()
CallSpawnAndWait ==
    /\ sup.pc = "idle"
    /\ sup.calls < MaxCalls
    /\ sup' = [sup EXCEPT !.pc = "spawn", !.calls = @ + 1]
    /\ listeners' = setup_signal_forwarding(listeners)
    /\ UNCHANGED <<CHILD_PID, child, sent>>
    /\ RespawnOthersIdle

\* Command::spawn in a new session, or its failure, which returns the error
SpawnChild ==
    /\ sup.pc = "spawn"
    /\ \E ok \in BOOLEAN :
            IF ok
            THEN /\ child' = [state |-> "running", pid |-> ChildPid + sup.calls - 1]
                 /\ sup' = [sup EXCEPT !.pc = "store"]
            ELSE /\ child' = child
                 /\ sup' = [sup EXCEPT !.pc = "idle"]
    /\ UNCHANGED <<CHILD_PID, listeners, sent>>
    /\ RespawnOthersIdle

\* CHILD_PID.store(child_pid)
StorePid ==
    /\ sup.pc = "store"
    /\ CHILD_PID' = child.pid
    /\ sup' = [sup EXCEPT !.pc = "wait"]
    /\ UNCHANGED <<child, listeners, sent>>
    /\ RespawnOthersIdle

\* the child ends and the blocked child.wait() collects it
ChildEnds ==
    /\ child.state = "running"
    /\ child' = [child EXCEPT !.state = "gone"]
    /\ UNCHANGED <<CHILD_PID, sup, listeners, sent>>
    /\ RespawnOthersIdle

\* child.wait() returns and spawn_and_wait returns the exit code
WaitDone ==
    /\ sup.pc = "wait"
    /\ child.state = "gone"
    /\ sup' = [sup EXCEPT !.pc = "idle"]
    /\ UNCHANGED <<CHILD_PID, child, listeners, sent>>
    /\ RespawnOthersIdle

\* the process receives a SIGINT or SIGTERM: every Signals instance gets it
SignalArrives ==
    /\ listeners # <<>>
    /\ sup.signals < MaxSignals
    /\ sup' = [sup EXCEPT !.signals = @ + 1]
    /\ listeners' = [k \in 1..Len(listeners) |->
                        [pending |-> Append(listeners[k].pending, sup.signals + 1)]]
    /\ UNCHANGED <<CHILD_PID, child, sent>>
    /\ RespawnOthersIdle

\* a listener thread takes its next signal: CHILD_PID.load, and for a pid
\* above zero graceful_kill_group, which probes and sends SIGINT
ListenerHandles(k) ==
    /\ k \in 1..Len(listeners)
    /\ listeners[k].pending # <<>>
    /\ listeners' = [listeners EXCEPT ![k].pending = Tail(@)]
    /\ sent' = IF forwards(CHILD_PID) /\ kill_probe(child, CHILD_PID)
               THEN Append(sent, [signal |-> Escalation[1].signal, pgid |-> CHILD_PID,
                                  thread |-> k, of |-> Head(listeners[k].pending)])
               ELSE sent
    /\ UNCHANGED <<CHILD_PID, child, sup>>
    /\ RespawnOthersIdle

InitRespawn ==
    /\ fs = EmptyFs
    /\ saved = [r \in CacheRefs |-> None]
    /\ last = [op |-> "init"]
    /\ ResolverAtRest
    /\ ConcAtRest
    /\ ShimAtRest
    /\ PureAtRest
    /\ ens = [pc |-> "none"]
    /\ savers = <<>>
    /\ listeners = <<>>
    /\ CHILD_PID = -1
    /\ child = NoChild
    /\ sup = [pc |-> "idle", calls |-> 0, signals |-> 0]
    /\ lis = [pc |-> "none"]
    /\ sent = <<>>

NextRespawn ==
    \/ CallSpawnAndWait
    \/ SpawnChild
    \/ StorePid
    \/ ChildEnds
    \/ WaitDone
    \/ SignalArrives
    \/ \E k \in 1..MaxCalls : ListenerHandles(k)

SpecRespawn == InitRespawn /\ [][NextRespawn]_vars

---------------------------------------------------------------------------
(* Functions applied to an input: the specification draws the input in its
   initial state, and its one step applies the function and keeps the result
   in last. *)

PureIdle == UNCHANGED <<fs, saved, resVars, concVars, shimVars, procVars, cacheProcVars, listeners, arg>>

PureInit(inputs) ==
    /\ fs = EmptyFs
    /\ saved = [r \in CacheRefs |-> None]
    /\ last = [op |-> "init"]
    /\ ResolverAtRest
    /\ ConcAtRest
    /\ ShimAtRest
    /\ ProcAtRest
    /\ CacheProcsAtRest
    /\ arg \in inputs

---------------------------------------------------------------------------
(* Parsing crate references: manifest.rs *)

\* longest text drawn character by character
MaxText == 4

\* the backtick character, written by name
Backtick == "backtick"

\* the characters of the drawn texts
ParseAlphabet == {"a", "/", ":", " ", ";", "$", "(", Backtick, "\"", "'"}

\* the namespaces and crate names, and the tags, of the drawn display strings
NameTexts == SeqsUpTo({"a", "-", "."}, 2) \ {<<>>}
TagTexts == SeqsUpTo({"9", "_", "Z"}, 2) \ {<<>>}

DefaultNamespaces == {config_default_namespace, <<>>}

ParseInputs ==
    {[f |-> "parse", text |-> t, default_namespace |-> d, cv |-> None] :
        t \in SeqsUpTo(ParseAlphabet, MaxText), d \in DefaultNamespaces}
    \cup
    {[f |-> "parse",
      text |-> display_name([namespace |-> n, crate_name |-> c, tag |-> t]),
      default_namespace |-> d,
      cv |-> Some([namespace |-> n, crate_name |-> c, tag |-> t])] :
        n \in NameTexts, c \in NameTexts, t \in TagTexts, d \in DefaultNamespaces}

ParseRegistryPath ==
    /\ arg.f = "parse"
    /\ last.op = "init"
    /\ last' = [op |-> "parse",
                result |-> parse_registry_path(arg.text, arg.default_namespace)]
    /\ PureIdle

InitParse == PureInit(ParseInputs)

NextParse == ParseRegistryPath

SpecParse == InitParse /\ [][NextParse]_vars

---------------------------------------------------------------------------
(* The environment variables a dispatch forwards: shimlink.rs, manifest.rs.
   A variable name is the sequence of its characters; the host environment
   is the sequence of its variables, each a name and a value. *)

\* the most variables of a drawn host environment, the mode switches aside
MaxEnv == 2

DOCKER_MANAGED_VARS == {<<"P", "A", "T", "H">>, <<"H", "O", "M", "E">>, <<"H", "O", "S", "T", "N", "A", "M", "E">>}

LOCALE_VARS ==
    {<<"L", "A", "N", "G">>, <<"L", "A", "N", "G", "U", "A", "G", "E">>,
     <<"L", "C", "_", "A", "L", "L">>, <<"L", "C", "_", "C", "O", "L", "L", "A", "T", "E">>,
     <<"L", "C", "_", "C", "T", "Y", "P", "E">>, <<"L", "C", "_", "M", "E", "S", "S", "A", "G", "E", "S">>,
     <<"L", "C", "_", "M", "O", "N", "E", "T", "A", "R", "Y">>, <<"L", "C", "_", "N", "U", "M", "E", "R", "I", "C">>,
     <<"L", "C", "_", "T", "I", "M", "E">>}

BULKER_PREFIX == <<"B", "U", "L", "K", "E", "R">>
BULKER_STRICT_ENV == <<"B", "U", "L", "K", "E", "R", "_", "S", "T", "R", "I", "C", "T", "_", "E", "N", "V">>
BULKER_EXTRA_ENVVARS == <<"B", "U", "L", "K", "E", "R", "_", "E", "X", "T", "R", "A", "_", "E", "N", "V", "V", "A", "R", "S">>
BULKERCRATE == <<"B", "U", "L", "K", "E", "R", "C", "R", "A", "T", "E">>
DISPLAY == <<"D", "I", "S", "P", "L", "A", "Y">>
LANG == <<"L", "A", "N", "G">>
BULK == <<"B", "U", "L", "K">>
MY == <<"M", "Y">>
EDITOR == <<"E", "D">>

\* str::starts_with
starts_with(s, prefix) ==
    Len(s) >= Len(prefix) /\ SubSeq(s, 1, Len(prefix)) = prefix

\* std::env::var(name): the value of the first variable of that name
env_var(env, name) ==
    LET at == {i \in 1..Len(env) : env[i].name = name}
    IN IF at = {} THEN None ELSE Some(env[CHOOSE i \in at : \A j \in at : i <= j].value)

\* str::split(','): the pieces between the commas, empty ones included
RECURSIVE split(_, _)
split(s, c) ==
    LET at == Find(s, c)
    IN IF at = 0 THEN <<s>>
       ELSE <<SubSeq(s, 1, at - 1)>> \o split(SubSeq(s, at + 1, Len(s)), c)

\* .map(|e| e.trim()).filter(|e| !e.is_empty())
RECURSIVE trimmed_nonempty(_)
trimmed_nonempty(pieces) ==
    IF pieces = <<>> THEN <<>>
    ELSE LET e == Trim(Head(pieces))
         IN (IF e = <<>> THEN <<>> ELSE <<e>>) \o trimmed_nonempty(Tail(pieces))

\* merge_lists appending every item of secondary
merge_lists_appending(primary, secondary) == primary \o secondary

\* manifest.rs merge_lists: append the items of secondary not yet present
RECURSIVE merge_lists(_, _)
merge_lists(primary, secondary) ==
    IF secondary = <<>> THEN primary
    ELSE merge_lists(IF Head(secondary) \in Range(primary) THEN primary
                     ELSE Append(primary, Head(secondary)),
                     Tail(secondary))

\* collect_host_envvars without its filters
collect_host_envvars_unfiltered(env) == [i \in 1..Len(env) |-> env[i].name]

\* collect_host_envvars: the names of the host variables that pass the filters
RECURSIVE collect_host_envvars(_)
collect_host_envvars(env) ==
    IF env = <<>> THEN <<>>
    ELSE LET k == Head(env).name
         IN (IF /\ k \notin DOCKER_MANAGED_VARS
                /\ k \notin LOCALE_VARS
                /\ ~starts_with(k, BULKER_PREFIX)
             THEN <<k>> ELSE <<>>) \o collect_host_envvars(Tail(env))

\* the strict list with the host variables added to it
envvars_strict_and_host(env, config_envvars, pkg_envvars) ==
    merge_lists(merge_lists(config_envvars, pkg_envvars), collect_host_envvars(env))

\* shimlink_exec, step 5: the list of forwarded variable names
envvars(env, config_envvars, pkg_envvars) ==
    IF env_var(env, BULKER_STRICT_ENV).some
    THEN LET allowed == merge_lists(config_envvars, pkg_envvars)
             extra == env_var(env, BULKER_EXTRA_ENVVARS)
         IN IF extra.some
            THEN merge_lists(allowed, trimmed_nonempty(split(extra.val, ",")))
            ELSE allowed
    ELSE collect_host_envvars(env)

\* the names of the drawn host variables
HostNames ==
    {<<"P", "A", "T", "H">>, <<"H", "O", "M", "E">>, <<"H", "O", "S", "T", "N", "A", "M", "E">>, LANG, <<"L", "C", "_", "A", "L", "L">>,
     BULKERCRATE, DISPLAY, BULK, MY}

\* the host environments without the mode switches
BaseEnvs ==
    {[i \in 1..Len(q) |-> [name |-> q[i], value |-> <<"v">>]] : q \in SeqsNoDup(HostNames, MaxEnv)}

\* the values BULKER_EXTRA_ENVVARS is drawn from: "", "MY", "MY, ED ,,MY", "ED,DISPLAY"
ExtraTexts ==
    {<<>>, MY, MY \o <<",", " ">> \o EDITOR \o <<" ", ",", ",">> \o MY,
     EDITOR \o <<",">> \o DISPLAY}

\* the mode switches put in front of a host environment
Switches ==
    {<<>>, <<[name |-> BULKER_STRICT_ENV, value |-> <<"1">>]>>}
    \cup {<<[name |-> BULKER_EXTRA_ENVVARS, value |-> t]>> : t \in ExtraTexts}
    \cup {<<[name |-> BULKER_STRICT_ENV, value |-> <<"1">>],
            [name |-> BULKER_EXTRA_ENVVARS, value |-> t]>> : t \in ExtraTexts}

\* config.bulker.envvars and the envvars of the command
ConfigEnvvars == {<<>>, <<DISPLAY>>, <<DISPLAY, LANG>>, <<DISPLAY, DISPLAY>>}
PkgEnvvars == {<<>>, <<LANG>>, <<MY, DISPLAY>>, <<MY, MY>>}

EnvInputs ==
    {[f |-> "envvars", env |-> s \o b, config_envvars |-> c, pkg_envvars |-> p] :
        s \in Switches, b \in BaseEnvs, c \in ConfigEnvvars, p \in PkgEnvvars}

CollectEnvvars ==
    /\ arg.f = "envvars"
    /\ last.op = "init"
    /\ last' = [op |-> "envvars",
                result |-> envvars(arg.env, arg.config_envvars, arg.pkg_envvars)]
    /\ PureIdle

InitEnv == PureInit(EnvInputs)

NextEnv == CollectEnvvars

SpecEnv == InitEnv /\ [][NextEnv]_vars

---------------------------------------------------------------------------
(* Extra arguments of the engine: shimlink.rs strip_tty_flag, shell_split *)

\* longest argument string drawn character by character
MaxArgText == 4

\* shell_split: simple shell-like splitting with quotes and backslash
RECURSIVE shell_split_from(_, _, _, _, _, _, _)
shell_split_from(s, i, current, result, in_single_quote, in_double_quote, escape_next) ==
    IF i > Len(s)
    THEN IF current # <<>> THEN Append(result, current) ELSE result
    ELSE LET ch == s[i]
         IN IF escape_next
            THEN shell_split_from(s, i + 1, Append(current, ch), result,
                                  in_single_quote, in_double_quote, FALSE)
            ELSE IF ch = "\\" /\ ~in_single_quote
            THEN shell_split_from(s, i + 1, current, result,
                                  in_single_quote, in_double_quote, TRUE)
            ELSE IF ch = "'" /\ ~in_double_quote
            THEN shell_split_from(s, i + 1, current, result,
                                  ~in_single_quote, in_double_quote, FALSE)
            ELSE IF ch = "\"" /\ ~in_single_quote
            THEN shell_split_from(s, i + 1, current, result,
                                  in_single_quote, ~in_double_quote, FALSE)
            ELSE IF ch \in {" ", "\t"} /\ ~in_single_quote /\ ~in_double_quote
            THEN shell_split_from(s, i + 1, <<>>,
                                  IF current # <<>> THEN Append(result, current) ELSE result,
                                  in_single_quote, in_double_quote, FALSE)
            ELSE shell_split_from(s, i + 1, Append(current, ch), result,
                                  in_single_quote, in_double_quote, FALSE)

shell_split(s) == shell_split_from(s, 1, <<>>, <<>>, FALSE, FALSE, FALSE)

\* Vec<String>::join(" ")
RECURSIVE join(_, _)
join(parts, sep) ==
    IF parts = <<>> THEN <<>>
    ELSE IF Len(parts) = 1 THEN parts[1]
    ELSE parts[1] \o sep \o join(Tail(parts), sep)

\* strip_tty_flag: the loop over the parts
RECURSIVE strip_parts(_)
strip_parts(parts) ==
    IF parts = <<>> THEN <<>>
    ELSE LET part == Head(parts)
             rest == strip_parts(Tail(parts))
         IN IF part = <<"-", "t">> \/ part = <<"-", "-", "t", "t", "y">> THEN rest
            ELSE IF starts_with(part, <<"-">>) /\ ~starts_with(part, <<"-", "-">>)
                        /\ Len(part) > 1
                 THEN LET stripped == SelectSeq(part, LAMBDA c : c # "t")
                      IN IF stripped = <<"-">> THEN rest ELSE <<stripped>> \o rest
                 ELSE <<part>> \o rest

strip_tty_flag(args) == join(strip_parts(shell_split(args)), <<" ">>)

\* the characters of the drawn argument strings
ArgAlphabet == {"-", "t", "i", " ", "'", "/"}

\* the argument strings of the tests, and two without a tty flag
NamedArgTexts ==
    {<<"-", "i", "t">>, <<"-", "t", "i">>, <<"-", "d", "i", "t">>, <<"-", "t">>, <<"-", "-", "t", "t", "y">>, <<>>,
     <<"-", "i", " ", "-", "-", "e", "n", "t", "r", "y", "p", "o", "i", "n", "t", " ", "j", "q">>,
     <<"-", "p", " ", "9", "2", "0", "0", ":", "9", "2", "0", "0">>,
     <<"-", "v", "/", "t", "m", "p", ":", "/", "t", "m", "p">>,
     <<"-", "-", "l", "a", "b", "e", "l", " ", "\"", "m", "y", " ", "l", "a", "b", "e", "l", "\"">>}

StripInputs ==
    {[f |-> "strip", args |-> t] : t \in SeqsUpTo(ArgAlphabet, MaxArgText) \cup NamedArgTexts}

StripTtyFlag ==
    /\ arg.f = "strip"
    /\ last.op = "init"
    /\ last' = [op |-> "strip", result |-> strip_tty_flag(arg.args)]
    /\ PureIdle

InitStrip == PureInit(StripInputs)

NextStrip == StripTtyFlag

SpecStrip == InitStrip /\ [][NextStrip]_vars

---------------------------------------------------------------------------
(* Argument paths and auto-mounts: shimlink.rs resolve_arg_paths.  An
   argument is the sequence of its characters.  A location of the host file
   system is the sequence of the names on the way from the root. *)

\* the most arguments of a drawn command line
MaxArgs == 3

\* the host file system of the model: directories, files, one symbolic link
\* and the current directory /h; the file /h/-a has a name like a flag
HostDirs == {<<>>, <<<<"d">>>>, <<<<"h">>>>, <<<<"h">>, <<"s">>>>}
HostFiles == {<<<<"d">>, <<"x">>>>, <<<<"h">>, <<"a">>>>, <<<<"h">>, <<"s">>, <<"b">>>>, <<<<"h">>, <<"-", "a">>>>}
HostLinks == [p \in {<<<<"h">>, <<"l">>>>} |-> <<<<"d">>, <<"x">>>>]
current_dir == <<<<"h">>>>

\* Path::new(arg): whether it starts at the root, and its names; empty names
\* and "." are dropped as Path::components drops them
PathOf(a) ==
    [absolute |-> starts_with(a, <<"/">>),
     names |-> SelectSeq(split(a, "/"), LAMBDA n : n # <<>> /\ n # <<".">>)]

\* the text of a location
RECURSIVE to_string_lossy(_)
to_string_lossy(loc) ==
    IF loc = <<>> THEN <<"/">>
    ELSE IF Len(loc) = 1 THEN <<"/">> \o loc[1]
    ELSE to_string_lossy(SubSeq(loc, 1, Len(loc) - 1)) \o <<"/">> \o loc[Len(loc)]

\* the walk of std::fs::canonicalize from a location along the names
RECURSIVE walk(_, _)
walk(loc, names) ==
    IF names = <<>> THEN Ok(loc)
    ELSE IF loc \notin HostDirs THEN Err("not a directory")
    ELSE IF Head(names) = <<".", ".">>
    THEN walk(IF loc = <<>> THEN loc ELSE SubSeq(loc, 1, Len(loc) - 1), Tail(names))
    ELSE LET next == Append(loc, Head(names))
         IN IF next \in DOMAIN HostLinks THEN walk(HostLinks[next], Tail(names))
            ELSE IF next \in HostDirs \cup HostFiles THEN walk(next, Tail(names))
            ELSE Err("not found")

\* std::fs::canonicalize(path); the empty path names nothing
canonicalize(p) ==
    IF ~p.absolute /\ p.names = <<>> THEN Err("not found")
    ELSE walk(IF p.absolute THEN <<>> ELSE current_dir, p.names)

\* Path::exists
exists(p) == canonicalize(p).ok

\* Path::parent: the path without its last name
parent(p) ==
    IF p.names = <<>> THEN None
    ELSE Some([p EXCEPT !.names = SubSeq(p.names, 1, Len(p.names) - 1)])

\* Path::file_name
file_name(p) ==
    IF p.names = <<>> \/ p.names[Len(p.names)] = <<".", ".">> THEN None
    ELSE Some(p.names[Len(p.names)])

\* arg.contains(c)
contains(s, c) == \E i \in 1..Len(s) : s[i] = c

\* Vec::push unless the vector contains the item
push_new(list, item) == IF item \in Range(list) THEN list ELSE Append(list, item)

\* the check of resolve_arg_paths for a flag, left out
is_flag_never(a) == FALSE

\* arg.starts_with('-')
is_flag(a) == starts_with(a, <<"-">>)

\* resolve_arg_paths: the loop over the arguments
RECURSIVE resolve_arg_paths_from(_, _, _)
resolve_arg_paths_from(args, resolved_args, auto_mount_dirs) ==
    IF args = <<>>
    THEN [resolved_args |-> resolved_args, auto_mount_dirs |-> auto_mount_dirs]
    ELSE LET a == Head(args)
             path == PathOf(a)
             abs == canonicalize(path)
             par == parent(path)
             abs_parent == IF par.some THEN canonicalize(par.val) ELSE Err("none")
         IN IF is_flag(a)
            THEN resolve_arg_paths_from(Tail(args), Append(resolved_args, a), auto_mount_dirs)
            ELSE IF abs.ok
            THEN resolve_arg_paths_from(
                    Tail(args),
                    Append(resolved_args, to_string_lossy(abs.val)),
                    IF abs.val = <<>> THEN auto_mount_dirs
                    ELSE push_new(auto_mount_dirs,
                                  to_string_lossy(SubSeq(abs.val, 1, Len(abs.val) - 1))))
            ELSE IF /\ contains(a, "/") \/ contains(a, ".")
                    /\ par.some
                    /\ abs_parent.ok
                    /\ ~(~par.val.absolute /\ par.val.names = <<>>)
            THEN IF file_name(path).some
                 THEN resolve_arg_paths_from(
                        Tail(args),
                        Append(resolved_args,
                               to_string_lossy(Append(abs_parent.val, file_name(path).val))),
                        push_new(auto_mount_dirs, to_string_lossy(abs_parent.val)))
                 ELSE resolve_arg_paths_from(
                        Tail(args),
                        Append(resolved_args, a),
                        push_new(auto_mount_dirs, to_string_lossy(abs_parent.val)))
            ELSE resolve_arg_paths_from(Tail(args), Append(resolved_args, a), auto_mount_dirs)

resolve_arg_paths(args) == resolve_arg_paths_from(args, <<>>, <<>>)

\* the arguments of the drawn command lines: flags, the flag-like name of an
\* existing file, existing files written in several ways, a link, a
\* directory, and names of nothing
ArgTexts ==
    {<<"-", "n">>, <<"-", "-", "v">>, <<"-", "a">>, <<"5">>,
     <<"a">>, <<".", "/", "a">>, <<"/", "h", "/", "a">>, <<"s", "/", "b">>, <<".", ".", "/", "d", "/", "x">>,
     <<"l">>, <<"/", "d">>, <<"n">>, <<"s", "/", "n">>, <<"n", ".", "t">>}

ArgInputs == {[f |-> "args", args |-> q] : q \in SeqsUpTo(ArgTexts, MaxArgs)}

ResolveArgPaths ==
    /\ arg.f = "args"
    /\ last.op = "init"
    /\ last' = [op |-> "args", result |-> resolve_arg_paths(arg.args)]
    /\ PureIdle

InitArgs == PureInit(ArgInputs)

NextArgs == ResolveArgPaths

SpecArgs == InitArgs /\ [][NextArgs]_vars

---------------------------------------------------------------------------
(* Ensuring a crate and its imports are cached: manifest_cache.rs
   ensure_cached_with_imports.  The registry is a map from references to
   what load_remote_manifest returns for them. *)

\* what load_remote_manifest returns for cv
load_remote_manifest(registry, cv) ==
    IF registry[cv].some THEN Ok(registry[cv].val) ELSE Err("fetch")

EnsureIdle == ens.pc = "idle"

\* ensure_cached_with_imports up to its loop over the imports: ensure_cached
\* is applied to cv, an error returns through every active call with `?`,
\* and otherwise the call goes on to the imports of the manifest it got
ensure_cached_with_imports_enter(f, cv, e) ==
    LET done == ensure_cached(f, cv, e.force, load_remote_manifest(e.registry, cv))
        noted == [e EXCEPT !.applied = Append(@, cv),
                           !.fetched = IF done.fetched THEN Append(@, cv) ELSE @]
    IN [fs |-> done.fs,
        saved |-> done.fetched /\ done.result.ok,
        ens |-> IF ~done.result.ok
                THEN [noted EXCEPT !.pc = "done", !.stack = <<>>, !.err = Some(cv)]
                ELSE [noted EXCEPT !.pc = "run",
                                   !.stack = Append(@, [cv |-> cv,
                                                        imports |-> done.result.val.imports,
                                                        i |-> 1])]]

EnsureOthersIdle ==
    UNCHANGED <<last, resVars, concVars, shimVars, procVars, savers, listeners, arg>>

AfterEnsure(cv, entered) ==
    /\ fs' = entered.fs
    /\ saved' = IF entered.saved
                THEN [saved EXCEPT ![cv] = Some(load_remote_manifest(ens.registry, cv).val)]
                ELSE saved
    /\ ens' = entered.ens

\* activate.rs 36-39, exec.rs: ensure_cached_with_imports(config, cv, force)
EnsureStart(cv, force) ==
    /\ ens.pc = "idle"
    /\ AfterEnsure(cv, ensure_cached_with_imports_enter(fs, cv,
                            [ens EXCEPT !.force = force, !.top = cv]))
    /\ EnsureOthersIdle

\* the loop parses the next import and calls ensure_cached_with_imports
EnsureImportCall ==
    /\ ens.pc = "run"
    /\ ens.stack # <<>>
    /\ Len(ens.stack) < MaxStack
    /\ LET top == ens.stack[Len(ens.stack)]
       IN /\ top.i <= Len(top.imports)
          /\ LET import_cv == parse_registry_path(top.imports[top.i],
                                                  config_default_namespace)
                 advanced == [ens EXCEPT !.stack[Len(ens.stack)].i = top.i + 1]
             IN AfterEnsure(import_cv.cv,
                            ensure_cached_with_imports_enter(fs, import_cv.cv, advanced))
    /\ EnsureOthersIdle

\* the loop is over: Ok(manifest)
EnsureReturn ==
    /\ ens.pc = "run"
    /\ ens.stack # <<>>
    /\ ens.stack[Len(ens.stack)].i > Len(ens.stack[Len(ens.stack)].imports)
    /\ ens' = [ens EXCEPT !.stack = SubSeq(@, 1, Len(@) - 1),
                          !.pc = IF Len(ens.stack) = 1 THEN "done" ELSE "run"]
    /\ UNCHANGED <<fs, saved>>
    /\ EnsureOthersIdle

\* the cache before the call: empty, or holding what the registry holds
InitEnsure ==
    /\ \E g \in ImportGraphs :
            /\ ens = [pc |-> "idle", registry |-> g, force |-> FALSE, top |-> A,
                      stack |-> <<>>, applied |-> <<>>, fetched |-> <<>>, err |-> None]
            /\ \/ fs = EmptyFs /\ saved = [r \in Refs |-> None]
               \/ fs = FsOfManifests(g, Refs) /\ saved = SavedOf(g)
    /\ savers = <<>>
    /\ listeners = <<>>
    /\ last = [op |-> "init"]
    /\ ResolverAtRest
    /\ ProcAtRest
    /\ PureAtRest
    /\ ConcAtRest
    /\ ShimAtRest

NextEnsure ==
    \/ \E cv \in Refs, force \in BOOLEAN : EnsureStart(cv, force)
    \/ EnsureImportCall
    \/ EnsureReturn

SpecEnsure == InitEnsure /\ [][NextEnsure]_vars

---------------------------------------------------------------------------
(* The volumes of a dispatch: shimlink.rs shimlink_exec step 4, manifest.rs
   merge_lists.  A volume is a plain string. *)

\* longest list of volumes drawn
MaxVolumes == 2

\* shimlink.rs tmpdir_volume: $TMPDIR, or "/tmp"
tmpdir_volume(TMPDIR) == IF TMPDIR.some THEN TMPDIR.val ELSE "/tmp"

\* shimlink_exec, step 4
volumes(config_volumes, no_default_volumes, pkg_volumes, auto_mount_dirs, TMPDIR) ==
    LET start == IF no_default_volumes THEN <<>> ELSE config_volumes
        merged == merge_lists(merge_lists(start, pkg_volumes), auto_mount_dirs)
        tmpdir == tmpdir_volume(TMPDIR)
    IN IF tmpdir \notin Range(merged) THEN Append(merged, tmpdir) ELSE merged

VolumeNames == {"$HOME", "/data", "/tmp"}

VolumeInputs ==
    {[f |-> "volumes", config_volumes |-> c, no_default_volumes |-> n, pkg_volumes |-> p,
      auto_mount_dirs |-> a, TMPDIR |-> t] :
        c \in SeqsUpTo(VolumeNames, MaxVolumes),
        n \in BOOLEAN,
        p \in SeqsUpTo(VolumeNames, MaxVolumes),
        a \in SeqsNoDup(VolumeNames, MaxVolumes),
        t \in {None, Some("/data"), Some("/scratch")}}

MergeVolumes ==
    /\ arg.f = "volumes"
    /\ last.op = "init"
    /\ last' = [op |-> "volumes",
                result |-> volumes(arg.config_volumes, arg.no_default_volumes,
                                   arg.pkg_volumes, arg.auto_mount_dirs, arg.TMPDIR)]
    /\ PureIdle

InitVolumes == PureInit(VolumeInputs)

NextVolumes == MergeVolumes

SpecVolumes == InitVolumes /\ [][NextVolumes]_vars

---------------------------------------------------------------------------
(* The extra arguments of the engine, merged: manifest.rs
   merged_docker_args, parse_docker_image_path; config.rs
   host_tool_specific_args; shimlink.rs shimlink_exec step 6.  A map of the
   config is a function on the keys it holds. *)

\* str::replace(from, to) of one character
replace(s, from, to) == [i \in 1..Len(s) |-> IF s[i] = from THEN to ELSE s[i]]

\* manifest.rs parse_docker_image_path
parse_docker_image_path(docker_image) ==
    LET colon == RFind(docker_image, ":")
        name_part == IF colon > 0 THEN SubSeq(docker_image, 1, colon - 1) ELSE docker_image
        tag == IF colon > 0 THEN SubSeq(docker_image, colon + 1, Len(docker_image))
               ELSE <<"l","a","t","e","s","t">>
        slash == RFind(name_part, "/")
    IN IF slash > 0
       THEN [namespace |-> replace(replace(SubSeq(name_part, 1, slash - 1), "/", "-"),
                                   ".", "-"),
             image |-> SubSeq(name_part, slash + 1, Len(name_part)),
             tag |-> tag]
       ELSE [namespace |-> <<"d","o","c","k","e","r">>, image |-> name_part, tag |-> tag]

\* serde_yml Value::get(key): the value under the key of a map, if any
get(m, key) ==
    IF m.some /\ m.val.map /\ key \in DOMAIN m.val.at THEN Some(m.val.at[key]) ELSE None

\* Value::as_str
as_str(v) == IF v.some /\ ~v.val.map THEN Some(v.val.str) ELSE None

YamlMap(f) == [map |-> TRUE, at |-> f]
YamlStr(t) == [map |-> FALSE, str |-> t]

DOCKER_ARGS == <<"d","o","c","k","e","r","_","a","r","g","s">>

\* config.rs host_tool_specific_args: the loop over the image tag and "default"
RECURSIVE host_tool_specific_args_from(_, _, _, _)
host_tool_specific_args_from(tool_args, parts, tags, arg_key) ==
    IF tags = <<>> THEN <<>>
    ELSE LET val == as_str(get(get(get(get(tool_args, parts.namespace), parts.image),
                                   Head(tags)), arg_key))
         IN IF val.some THEN val.val
            ELSE host_tool_specific_args_from(tool_args, parts, Tail(tags), arg_key)

host_tool_specific_args(tool_args, docker_image, arg_key) ==
    IF ~tool_args.some THEN <<>>
    ELSE LET parts == parse_docker_image_path(docker_image)
         IN host_tool_specific_args_from(tool_args, parts, <<parts.tag, DefaultTag>>, arg_key)

\* merged_docker_args: the loop over extra_args
RECURSIVE push_extras(_, _)
push_extras(all, extra_args) ==
    IF extra_args = <<>> THEN all
    ELSE push_extras(IF Head(extra_args) # <<>>
                     THEN (IF all # <<>> THEN Append(all, " ") ELSE all) \o Head(extra_args)
                     ELSE all,
                     Tail(extra_args))

\* PackageCommand::merged_docker_args
merged_docker_args(pkg, extra_args) ==
    LET first == IF pkg.dockerargs.some THEN pkg.dockerargs.val ELSE <<>>
        second == IF pkg.docker_args.some
                  THEN (IF first # <<>> THEN Append(first, " ") ELSE first)
                            \o pkg.docker_args.val
                  ELSE first
    IN push_extras(second, extra_args)

\* shimlink_exec, step 6
docker_args(tool_args, pkg, env) ==
    LET tool_extra == host_tool_specific_args(tool_args, pkg.docker_image, DOCKER_ARGS)
        found == env_var(env, <<"BULKER_EXTRA_DOCKER_ARGS">>)
        env_extra == IF found.some THEN found.val ELSE <<>>
    IN merged_docker_args(pkg, <<tool_extra, env_extra>>)

\* the images of the commands: without a tag, with a tag, with a registry
DockerImages ==
    { <<"i">>, <<"i",":","1">>, <<"q",".","o","/","b","/","i",":","1">> }

OptionalArgs(t) == {None, Some(<<>>), Some(t)}

\* the entry of a tag in tool_args: none, a map without docker_args, a map
\* with an empty docker_args, a map with docker_args
TagEntries(t) ==
    {None, Some(YamlMap(<<>>)), Some(YamlMap(DOCKER_ARGS :> YamlStr(<<>>))),
     Some(YamlMap(DOCKER_ARGS :> YamlStr(t)))}

TagMap(tag, exact, default) ==
    (IF exact.some THEN tag :> exact.val ELSE <<>>)
        @@ (IF default.some THEN DefaultTag :> default.val ELSE <<>>)

\* the tool_args of a config that names the image img, and one that names none
ToolArgs(img) ==
    LET parts == parse_docker_image_path(img)
    IN {None} \cup
       {Some(YamlMap(parts.namespace :> YamlMap(parts.image :>
                YamlMap(TagMap(parts.tag, exact, default))))) :
            exact \in TagEntries(<<"-","c">>), default \in TagEntries(<<"-","d">>)}

ExtraEnvs ==
    {<<>>} \cup {<<[name |-> <<"BULKER_EXTRA_DOCKER_ARGS">>, value |-> v]>> :
                    v \in {<<>>, <<"-","e">>}}

DockerArgsInputs ==
    UNION {{[f |-> "docker_args",
             pkg |-> [docker_image |-> img, dockerargs |-> a, docker_args |-> b],
             tool_args |-> t, env |-> e] :
                a \in OptionalArgs(<<"-","a">>), b \in OptionalArgs(<<"-","b">>),
                t \in ToolArgs(img), e \in ExtraEnvs} : img \in DockerImages}

MergeDockerArgs ==
    /\ arg.f = "docker_args"
    /\ last.op = "init"
    /\ last' = [op |-> "docker_args", result |-> docker_args(arg.tool_args, arg.pkg, arg.env)]
    /\ PureIdle

InitDockerArgs == PureInit(DockerArgsInputs)

NextDockerArgs == MergeDockerArgs

SpecDockerArgs == InitDockerArgs /\ [][NextDockerArgs]_vars

---------------------------------------------------------------------------
(* A session: an activation of a crate list, then dispatches through the
   entries of its shimlink directory.  activate.rs get_new_path and activate,
   commands/exec.rs run, shimlink.rs shimlink_exec.  Every crate the
   activation needs is cached or the activation fails. *)

\* longest import list of a manifest a session draws
MaxSessionImports == 1

\* get_new_path: create_shimlink_dir for the manifest of each resolved crate
RECURSIVE populate(_, _, _, _)
populate(f, entries, all_cratevars, env) ==
    IF all_cratevars = <<>> THEN entries
    ELSE populate(f,
                  create_shimlink_dir(entries,
                                      load_cached(f, Head(all_cratevars)).val.val, env),
                  Tail(all_cratevars), env)

\* activate.rs 125-127, exec.rs 78-80: the BULKERCRATE of the session
crate_id(cl) == IF cl = <<>> THEN <<>> ELSE display_name(cl[1])

\* shimlink_exec: a name with a leading "_" stands for the command after it
actual_command(command_name) ==
    IF \E c \in CommandNames : command_name = "_" \o c
    THEN CHOOSE c \in CommandNames : command_name = "_" \o c
    ELSE command_name

\* shimlink_exec, steps 1 and 2: the crate of BULKERCRATE and the lookup
shimlink_lookup(f, BULKERCRATE_value, command_name) ==
    LET cratevars == parse_registry_path(BULKERCRATE_value, config_default_namespace)
    IN IF ~cratevars.ok THEN Err([kind |-> "reference"])
       ELSE find_command_in_crate_with_imports(f, cratevars.cv,
                                               actual_command(command_name))

NoHostCommands == [which_runs |-> FALSE, on_path |-> {}]

SessionIdle ==
    UNCHANGED <<fs, saved, resVars, concVars, shimVars, procVars, cacheProcVars,
                listeners, arg>>

\* get_new_path and the environment activate or exec hands to the shell
ActivateSession ==
    /\ arg.f = "session"
    /\ last.op = "init"
    /\ LET all_cratevars == resolve_cratevars_with_imports(fs, arg.cratelist)
       IN last' = IF ~all_cratevars.ok THEN [op |-> "activation_failed"]
                  ELSE [op |-> "activated",
                        shimdir |-> populate(fs, {}, all_cratevars.val, NoHostCommands),
                        BULKERCRATE |-> crate_id(arg.cratelist)]
    /\ SessionIdle

\* the shell runs an entry of the shimlink directory: shimlink_exec
DispatchEntry(n) ==
    /\ last.op \in {"activated", "dispatched"}
    /\ [name |-> n, target |-> bulker_path] \in last.shimdir
    /\ last' = [op |-> "dispatched", shimdir |-> last.shimdir,
                BULKERCRATE |-> last.BULKERCRATE, command |-> n,
                result |-> shimlink_lookup(fs, last.BULKERCRATE, n)]
    /\ SessionIdle

\* what each cached manifest of a session declares
SessionShapes ==
    [Refs -> {None} \cup {Some([commands |-> c, imports |-> l]) :
                            c \in SeqsUpTo(CommandNames, 1),
                            l \in SeqsNoDup(ImportTexts, MaxSessionImports)}]

InitSession ==
    /\ \E g \in SessionShapes :
            /\ fs = FsOfManifests(ManifestsOfShapes(g), Refs)
            /\ saved = ManifestsOfShapes(g)
    /\ last = [op |-> "init"]
    /\ arg \in {[f |-> "session", cratelist |-> cl] : cl \in SeqsNoDup(Refs, 2) \ {<<>>}}
    /\ ResolverAtRest
    /\ ProcAtRest
    /\ CacheProcsAtRest
    /\ ConcAtRest
    /\ ShimAtRest

NextSession ==
    \/ ActivateSession
    \/ \E n \in {c : c \in CommandNames} \cup {"_" \o c : c \in CommandNames} :
            DispatchEntry(n)

SpecSession == InitSession /\ [][NextSession]_vars

---------------------------------------------------------------------------
(* Import resolution: the claims. *)

\* The steps a resolution can take when every crate is entered at most once:
\* one per starting reference, one per import of a cached manifest, one
\* return per cached manifest, and the final step.
RECURSIVE EntrySteps(_)
EntrySteps(S) ==
    IF S = {} THEN 0
    ELSE LET r == CHOOSE x \in S : TRUE
             entry == get_crate_entry(fs, r)
         IN (IF entry.some THEN Len(entry.val.imports) + 1 ELSE 0) + EntrySteps(S \ {r})

ResolveBudget == Len(cratelist) + EntrySteps(Refs) + 1

\* some step of a running resolution can be taken
ResolveCanStep ==
    \/ stack = <<>>
    \/ stack[Len(stack)].i > Len(stack[Len(stack)].imports)
    \/ Len(stack) < MaxStack

\* the manifest cached for A imports exactly B, and the one for B exactly A
TwoCycleAB ==
    /\ get_crate_entry(fs, A).some /\ get_crate_entry(fs, A).val.imports = <<TextB>>
    /\ get_crate_entry(fs, B).some /\ get_crate_entry(fs, B).val.imports = <<TextA>>

\* C1: a resolution never takes more steps than its budget, which is finite
\* for every import graph, cyclic or not, and while it runs it can take
\* another step, so it terminates; on the 2-cycle A -> B -> A a resolution
\* started from [A] ends without error with exactly [A, B].
C1_ResolutionTerminates ==
    /\ rpc \in {"run", "done"} => rsteps <= ResolveBudget
    /\ rpc = "run" => ResolveCanStep
    /\ (rpc = "done" /\ cratelist = <<A>> /\ TwoCycleAB)
            => (~rerr.some /\ paths = <<A, B>>)

C1_Witness ==
    /\ rpc = "done"
    /\ TwoCycleAB
    /\ cratelist = <<A>>
    /\ paths = <<A, B>>
    /\ ~removed

\* the number of imports followed from cv to the end of the chain it starts,
\* or -1 when cv does not start an acyclic chain of cached manifests with at
\* most one import each
RECURSIVE ChainDepth(_, _, _)
ChainDepth(f, cv, seen) ==
    LET entry == get_crate_entry(f, cv)
    IN IF cv \in seen \/ ~entry.some \/ Len(entry.val.imports) > 1 THEN -1
       ELSE IF entry.val.imports = <<>> THEN 0
       ELSE LET next == parse_registry_path(entry.val.imports[1], config_default_namespace)
                below == IF next.ok THEN ChainDepth(f, next.cv, seen \cup {cv}) ELSE -1
            IN IF below < 0 THEN -1 ELSE below + 1

\* C2: a resolution from the head of an acyclic import chain one longer than
\* the depth ceiling ends with a depth-exceeded error that carries the
\* ceiling, and one from the head of a chain no longer than the ceiling
\* succeeds.
C2_DepthCeilingEnforced ==
    (rpc = "done" /\ Len(cratelist) = 1) =>
        LET depth == ChainDepth(fs, cratelist[1], {})
        IN /\ depth = MAX_IMPORT_DEPTH + 1 =>
                /\ rerr.some
                /\ rerr.val.kind = "depth_exceeded"
                /\ rerr.val.limit = MAX_IMPORT_DEPTH
           /\ (depth >= 0 /\ depth <= MAX_IMPORT_DEPTH) => ~rerr.some

\* the references reachable from S through the imports of cached manifests
RECURSIVE Reachable(_, _)
Reachable(f, S) ==
    LET more == S \cup
            {parse_registry_path(t, config_default_namespace).cv :
                t \in UNION {Range(get_crate_entry(f, r).val.imports) :
                                r \in {x \in S : get_crate_entry(f, x).some}}}
    IN IF more = S THEN S ELSE Reachable(f, more)

Uncached(f, S) == {r \in S : ~load_cached(f, r).val.some}

---------------------------------------------------------------------------
(* Command lookup: the claims. *)

\* the manifest cached for cv declares a command named n
Declares(f, cv, n) ==
    LET cached == load_cached(f, cv)
    IN cached.ok /\ cached.val.some /\ find_command(cached.val.val.commands, n).some

\* the result of resolve_paths_with_imports when it is done
ResolveAgrees ==
    rpc = "done" =>
        resolve_cratevars_with_imports(fs, cratelist)
            = IF rerr.some THEN Err(rerr.val) ELSE Ok(paths)

\* C4: a lookup that returns a definition returns the one of the first
\* manifest in resolution order that declares the name: the active crate's
\* own when it declares the name, and otherwise, when the active crate
\* imports two crates that both declare it, that of the import listed first.
C4_FirstMatchWins ==
    (last.op = "find" /\ last.result.ok) =>
        LET order == resolve_cratevars_with_imports(fs, <<last.cv>>).val
            n == last.command
            first == CHOOSE i \in 1..Len(order) :
                        /\ Declares(fs, order[i], n)
                        /\ \A j \in 1..(i - 1) : ~Declares(fs, order[j], n)
            own == get_crate_entry(fs, last.cv).val.imports
            import1 == parse_registry_path(own[1], config_default_namespace).cv
            import2 == parse_registry_path(own[2], config_default_namespace).cv
        IN /\ \E i \in 1..Len(order) : Declares(fs, order[i], n)
           /\ last.result.val = PackageCommand(n, ImageOf(order[first]))
           /\ Declares(fs, last.cv, n) => last.result.val.docker_image = ImageOf(last.cv)
           /\ (/\ ~Declares(fs, last.cv, n)
               /\ Len(own) = 2
               /\ Declares(fs, import1, n)
               /\ Declares(fs, import2, n))
                => last.result.val.docker_image = ImageOf(import1)

\* the active crate and one of its imports declare the command looked up
C4_Witness ==
    /\ last.op = "find"
    /\ last.result.ok
    /\ Declares(fs, last.cv, last.command)
    /\ \E r \in Reachable(fs, {last.cv}) \ {last.cv} : Declares(fs, r, last.command)
    /\ last.result.val.docker_image = ImageOf(last.cv)

\* C5 as stated: a lookup returns a definition with the requested name if and
\* only if the active crate or one of its transitive imports has a cached
\* manifest declaring it, and fails otherwise with an error naming the
\* command and the active crate.
C5_FoundIffDeclared ==
    last.op = "find" =>
        LET declared == \E r \in Reachable(fs, {last.cv}) : Declares(fs, r, last.command)
        IN /\ last.result.ok <=> declared
           /\ last.result.ok => last.result.val.command = last.command
           /\ ~last.result.ok =>
                last.result.err = CommandNotFound(last.command, last.cv)

\* C5: when every crate reachable from the active crate has a cached
\* manifest, a lookup returns a definition with the requested name if and
\* only if one of them declares it, and fails otherwise with an error naming
\* the command and the active crate; when a reachable crate has no cached
\* manifest, the lookup fails with the not-installed error naming such a
\* crate, whatever the cached manifests declare.
C5_FoundIffDeclaredWhenResolved ==
    last.op = "find" =>
        LET reach == Reachable(fs, {last.cv})
            missing == Uncached(fs, reach)
            declared == \E r \in reach : Declares(fs, r, last.command)
        IN IF missing = {}
           THEN /\ last.result.ok <=> declared
                /\ last.result.ok => last.result.val.command = last.command
                /\ ~last.result.ok =>
                        last.result.err = CommandNotFound(last.command, last.cv)
           ELSE /\ ~last.result.ok
                /\ last.result.err.kind = "not_installed"
                /\ last.result.err.crate \in {display_name(r) : r \in missing}

\* a command declared only two imports away from the active crate is found
C5_Witness ==
    /\ last.op = "find"
    /\ last.result.ok
    /\ ~Declares(fs, last.cv, last.command)
    /\ \E r \in Refs :
            /\ last.result.val.docker_image = ImageOf(r)
            /\ r \notin {parse_registry_path(t, config_default_namespace).cv :
                            t \in Range(get_crate_entry(fs, last.cv).val.imports)}

---------------------------------------------------------------------------
(* The manifest cache: the claims. *)

\* C6: the cache is a map from references to manifests: after every sequence
\* of save, remove, clear-all and ensure operations, load of each reference
\* returns, without error, the manifest most recently saved for it if it was
\* saved and not removed or cleared since, and absent otherwise.
C6_CacheIsMap ==
    \A r \in CacheRefs : load_cached(fs, r) = Ok(saved[r])

\* the same for the references without a "." component
PlainRefsAreMapped ==
    \A r \in CacheRefs \cap Refs : load_cached(fs, r) = Ok(saved[r])

\* C7: ensure without force on a cached reference returns the cached
\* manifest, fetches nothing and leaves the cache as it was; ensure with
\* force, or on an absent reference, fetches, and when the registry answers
\* it returns the fetched manifest, which a load then returns; when the
\* registry fails it fails and leaves the cache as it was.
C7_EnsureCached ==
    last.op = "ensure" =>
        LET before == load_cached(last.before, last.cv)
        IN IF ~last.force /\ before.ok /\ before.val.some
           THEN /\ last.result = Ok(before.val.val)
                /\ ~last.fetched
                /\ fs = last.before
           ELSE /\ last.fetched
                /\ last.fetch.ok =>
                    /\ last.result = Ok(last.fetch.val)
                    /\ load_cached(fs, last.cv) = Ok(Some(last.fetch.val))
                /\ ~last.fetch.ok =>
                    /\ ~last.result.ok
                    /\ fs = last.before

\* a forced ensure replaced the cached manifest by a different fetched one
C7_Witness ==
    /\ last.op = "ensure"
    /\ last.force
    /\ last.fetch.ok
    /\ load_cached(last.before, last.cv) = Ok(Some(M1))
    /\ load_cached(fs, last.cv) = Ok(Some(M2))
    /\ last.result = Ok(M2)

\* C8: a load that runs while a save of the same reference is under way
\* returns the complete previous state, the previous manifest or absent, or
\* the complete new manifest.
C8_LoadSeesNoPartialWrite ==
    last.op = "load" =>
        last.result \in {Ok(writer.prev), Ok(Some(writer.m))}

---------------------------------------------------------------------------
(* Shimlink directories: the claims. *)

\* the host commands of m that `which` locates
Located(m, env) ==
    {m.host_commands[i] : i \in {j \in 1..Len(m.host_commands) :
                                    env.which_runs /\ m.host_commands[j] \in env.on_path}}

\* the entry points the commands of m call for
CommandEntries(m) ==
    {[name |-> m.commands[i].command, target |-> bulker_path] : i \in 1..Len(m.commands)}
    \cup {[name |-> "_" \o m.commands[i].command, target |-> bulker_path] :
            i \in 1..Len(m.commands)}

HostEntries(m, env) == {[name |-> h, target |-> HostPath(h)] : h \in Located(m, env)}

\* no two entry points m calls for have the same name
DistinctEntryNames(m) ==
    LET names == [i \in 1..Len(m.commands) |-> m.commands[i].command]
        all == names \o [i \in 1..Len(names) |-> "_" \o names[i]] \o m.host_commands
    IN \A i, j \in 1..Len(all) : i # j => all[i] # all[j]

\* what create_shimlink_dir leaves in a new directory, as the claim has it
ShimDirAsClaimed(m) ==
    /\ last.result.ok
    /\ last.after = CommandEntries(m) \cup HostEntries(m, host)
    /\ Cardinality(last.after) = 2 * Len(m.commands) + Cardinality(Located(m, host))
    /\ (Len(m.commands) = 2 /\ Len(m.host_commands) = 1 /\ Located(m, host) # {})
            => Cardinality(last.after) = 5

\* C10 as stated: creating a shimlink directory from a manifest leaves in it
\* exactly the command name and the "_" name of each container command, both
\* linked to this program, and the name of each located host command, linked
\* to the host binary; the creation does not fail; two container commands
\* and one located host command give five entries.
C10_ShimDirEntries ==
    (last.op = "create" /\ last.fresh) => ShimDirAsClaimed(last.manifest)

\* C10: the same, for a manifest in which the names of the container
\* commands, their "_" names and the names of the host commands are all
\* different.
C10_ShimDirEntriesDistinctNames ==
    (last.op = "create" /\ last.fresh /\ DistinctEntryNames(last.manifest))
        => ShimDirAsClaimed(last.manifest)

\* two container commands and a located host command in a new directory
C10_Witness ==
    /\ last.op = "create"
    /\ last.fresh
    /\ DistinctEntryNames(last.manifest)
    /\ Len(last.manifest.commands) = 2
    /\ Len(last.manifest.host_commands) = 1
    /\ Located(last.manifest, host) # {}
    /\ Cardinality(tmp[ShimDirName].entries) = 5

\* a process that holds a shimlink directory
Holds(p) == acts[p].pc \in {"made", "populate", "active"}

\* C9: no two activations are given the same directory: each is given one
\* it created itself, and two processes that hold directories at the same
\* time hold differently named ones; and every creation, replacement or
\* deletion of entries an activation makes is in the directory it created.
C9_DistinctShimDirs ==
    /\ \A x, y \in got : x[1] # y[1] => x[2] # y[2]
    /\ \A x \in got : x[2] = x[1]
    /\ \A p, q \in Procs : (p # q /\ Holds(p) /\ Holds(q)) => acts[p].dir # acts[q].dir
    /\ \A t \in touched : t.by = t.creator

\* two activations are live together, each with its populated directory,
\* after an earlier activation was cleaned up
C9_Witness ==
    /\ \A p \in Procs : acts[p].pc = "active" /\ tmp[acts[p].dir].entries # {}
    /\ Cardinality(got) = 3
    /\ Cardinality(touched) = 3

---------------------------------------------------------------------------
(* The process supervisor: the claims. *)

EscalationSignals == [k \in 1..Len(Escalation) |-> Escalation[k].signal]

\* C11: an escalation sends its signals in the order SIGINT, SIGTERM,
\* SIGKILL; a liveness probe that found the group alive precedes each of
\* them; a later signal is sent only after all the probes of the wait for
\* the one before found the group alive; once the group is gone no further
\* signal is sent (none after the first, when the group goes right after
\* it), and a group that was gone when the escalation began gets none.
C11_EscalationInOrder ==
    /\ lis.pc # "none" =>
        /\ lis.sigs = SubSeq(EscalationSignals, 1, Len(lis.sigs))
        /\ Len(lis.sigs) <= lis.cap
        /\ lis.at = "gone" => lis.sigs = <<>>
    /\ \A j \in 1..Len(sent) :
        /\ sent[j].probed
        /\ sent[j].k > 1 =>
            /\ sent[j].waited = Escalation[sent[j].k - 1].ticks
            /\ j > 1
            /\ sent[j - 1].k = sent[j].k - 1

\* the group went right after the first signal: the escalation is over and
\* SIGINT is all that was sent
C11_Witness ==
    /\ lis.pc = "listen"
    /\ lis.at = "running"
    /\ lis.cap = 1
    /\ lis.sigs = <<"SIGINT">>
    /\ sent = << [signal |-> "SIGINT", pgid |-> ChildPid, k |-> 1, waited |-> 0,
                  probed |-> TRUE, at |-> "running"] >>
    /\ child.state = "gone"

C19_PrintCommandOnly ==
    /\ "BULKER_PRINT_COMMAND" \in sup.env =>
        /\ sup.pc \in {"start", "failed", "returned", "killed"}
        /\ sup.pc = "returned" => sup.printed
        /\ sup.pc # "returned" => ~sup.printed
        /\ child.state = "none"
        /\ CHILD_PID = -1
        /\ lis.pc = "none"
    /\ "BULKER_PRINT_COMMAND" \notin sup.env =>
        /\ ~sup.printed
        /\ sup.pc # "returned"

\* the toggle was set and the invocation was printed
C19_Witness ==
    /\ "BULKER_PRINT_COMMAND" \in sup.env
    /\ sup.pc = "returned"
    /\ sup.printed
    /\ child.state = "none"

---------------------------------------------------------------------------
(* Parsing crate references: the claims. *)

AllowedChars == AsciiAlphanumeric \cup {"-", "_", "."}

\* the component is not empty and all its characters are allowed
WellFormed(s) == s # <<>> /\ \A i \in 1..Len(s) : s[i] \in AllowedChars

\* the characters the claim names, "$(" being a "$" followed by a "("
HasShellChar(t) ==
    \/ \E i \in 1..Len(t) : t[i] \in {";", Backtick, "\"", "'", " "}
    \/ \E i \in 1..(Len(t) - 1) : t[i] = "$" /\ t[i + 1] = "("

\* the texts a reference can be written as, given the default namespace
Spellings(cv, default_namespace) ==
    {display_name(cv)}
    \cup (IF cv.tag = DefaultTag
          THEN {cv.namespace \o <<"/">> \o cv.crate_name} ELSE {})
    \cup (IF cv.namespace = default_namespace
          THEN {cv.crate_name \o <<":">> \o cv.tag} ELSE {})
    \cup (IF cv.namespace = default_namespace /\ cv.tag = DefaultTag
          THEN {cv.crate_name} ELSE {})

\* a parse that returns a reference returns one the text spells, with three
\* well-formed components
ParsesToWellFormed(text) ==
    last.result.ok =>
        /\ WellFormed(last.result.cv.namespace)
        /\ WellFormed(last.result.cv.crate_name)
        /\ WellFormed(last.result.cv.tag)
        /\ text \in Spellings(last.result.cv, arg.default_namespace)

\* C13 as stated: a parse returns a reference only for a text that spells
\* three non-empty components of allowed characters, and every text with a
\* ';', a backtick, a "$(", a quote or a space in it is rejected.
C13_RejectsUnsafeText ==
    last.op = "parse" =>
        /\ ParsesToWellFormed(arg.text)
        /\ HasShellChar(arg.text) => ~last.result.ok

\* C13: the same for the text without its leading and trailing white space,
\* which the parser drops before it splits the text.
C13_RejectsUnsafeTrimmedText ==
    last.op = "parse" =>
        /\ ParsesToWellFormed(Trim(arg.text))
        /\ HasShellChar(Trim(arg.text)) => ~last.result.ok

\* a text with "$(" in it, and one with an empty crate name, were rejected
C13_Witness ==
    /\ last.op = "parse"
    /\ ~last.result.ok
    /\ arg.text \in {<<"a", "$", "(", "a">>, <<"a", "/", ":", "a">>}

\* C14: the display string of a reference of three non-empty components of
\* allowed characters parses to those components, whatever the default
\* namespace.
C14_DisplayRoundTrip ==
    (last.op = "parse" /\ arg.cv.some) =>
        /\ WellFormed(arg.cv.val.namespace)
        /\ WellFormed(arg.cv.val.crate_name)
        /\ WellFormed(arg.cv.val.tag)
        /\ arg.text = display_name(arg.cv.val)
        /\ last.result = [ok |-> TRUE, cv |-> arg.cv.val]

\* a display string with dots and hyphens was parsed with the empty default
\* namespace
C14_Witness ==
    /\ last.op = "parse"
    /\ arg.cv.some
    /\ arg.default_namespace = <<>>
    /\ arg.text = <<"a", ".", "/", "-", "a", ":", "9", "_">>
    /\ last.result.ok
    /\ last.result.cv.crate_name = <<"-", "a">>

---------------------------------------------------------------------------
(* Forwarded environment variables: the claims. *)

\* the mode switches of a host environment and the rest of it
SwitchNames == {BULKER_STRICT_ENV, BULKER_EXTRA_ENVVARS}
SwitchesOf(env) == SelectSeq(env, LAMBDA v : v.name \in SwitchNames)

\* the names BULKER_EXTRA_ENVVARS lists
ExtraNames(env) ==
    IF env_var(env, BULKER_EXTRA_ENVVARS).some
    THEN Range(trimmed_nonempty(split(env_var(env, BULKER_EXTRA_ENVVARS).val, ",")))
    ELSE {}

\* C15: in strict mode the forwarded list is the configured names as
\* configured, then the command's names that are not among them, then the
\* listed extension names that are not there yet, each once, and nothing
\* else; every host environment with the same switches gives the same list.
C15_StrictAllowList ==
    (last.op = "envvars" /\ env_var(arg.env, BULKER_STRICT_ENV).some) =>
        LET n == Len(arg.config_envvars)
            rest == SubSeq(last.result, n + 1, Len(last.result))
        IN /\ Len(last.result) >= n
           /\ SubSeq(last.result, 1, n) = arg.config_envvars
           /\ Range(rest) = (Range(arg.pkg_envvars) \cup ExtraNames(arg.env))
                                \ Range(arg.config_envvars)
           /\ \A i, j \in 1..Len(rest) :
                /\ i # j => rest[i] # rest[j]
                /\ (i < j /\ rest[j] \in Range(arg.pkg_envvars))
                        => rest[i] \in Range(arg.pkg_envvars)
           /\ (arg.config_envvars = <<DISPLAY, LANG>> /\ arg.pkg_envvars = <<>>
                    /\ ExtraNames(arg.env) = {}) => Len(last.result) = 2
           /\ \A b \in BaseEnvs :
                envvars(SwitchesOf(arg.env) \o b, arg.config_envvars, arg.pkg_envvars)
                    = last.result

\* the allow-list [DISPLAY, LANG] in a host environment with other variables,
\* and a list built from all three sources
C15_Witness ==
    /\ last.op = "envvars"
    /\ env_var(arg.env, BULKER_STRICT_ENV).some
    /\ \/ /\ arg.config_envvars = <<DISPLAY, LANG>>
          /\ env_var(arg.env, MY).some
          /\ env_var(arg.env, BULK).some
          /\ last.result = <<DISPLAY, LANG>>
       \/ /\ arg.config_envvars = <<DISPLAY>>
          /\ arg.pkg_envvars = <<MY, DISPLAY>>
          /\ last.result = <<DISPLAY, MY, EDITOR>>

\* the names normal mode holds back
Reserved(k) ==
    \/ k \in DOCKER_MANAGED_VARS
    \/ k \in LOCALE_VARS
    \/ starts_with(k, BULKER_PREFIX)

\* C16: in normal mode the forwarded list holds every host variable that is
\* not PATH, HOME, HOSTNAME, a locale variable or a name beginning with
\* BULKER, and none of those.
C16_NormalModeForwards ==
    (last.op = "envvars" /\ ~env_var(arg.env, BULKER_STRICT_ENV).some) =>
        /\ \A i \in 1..Len(arg.env) :
                ~Reserved(arg.env[i].name) => arg.env[i].name \in Range(last.result)
        /\ \A i \in 1..Len(last.result) :
                /\ ~Reserved(last.result[i])
                /\ env_var(arg.env, last.result[i]).some

\* a host environment with PATH and BULK: PATH is held back, BULK, which
\* only begins like BULKER, is forwarded
C16_Witness ==
    /\ last.op = "envvars"
    /\ ~env_var(arg.env, BULKER_STRICT_ENV).some
    /\ env_var(arg.env, BULKER_EXTRA_ENVVARS).some
    /\ env_var(arg.env, BULK).some
    /\ env_var(arg.env, <<"P", "A", "T", "H">>).some
    /\ last.result = <<BULK>>

---------------------------------------------------------------------------
(* Extra arguments of the engine: the claims. *)

Letters == AsciiAlphanumeric \ {"0", "1", "2", "3", "4", "5", "6", "7", "8", "9"}

\* the word is the tty flag or a cluster of one-letter flags with t in it
IsTtyWord(w) ==
    \/ w = <<"-", "t">>
    \/ w = <<"-", "-", "t", "t", "y">>
    \/ /\ Len(w) > 1
       /\ w[1] = "-"
       /\ \A i \in 2..Len(w) : w[i] \in Letters
       /\ \E i \in 2..Len(w) : w[i] = "t"

HasTtyFlag(text) == \E i \in 1..Len(shell_split(text)) : IsTtyWord(shell_split(text)[i])

\* C17: -it becomes -i, -dit becomes -di, -t and --tty become the empty
\* string, and an argument string none of whose words is a tty flag comes
\* back with the same words.
C17_StripsOnlyTtyFlag ==
    last.op = "strip" =>
        /\ arg.args = <<"-", "i", "t">> => last.result = <<"-", "i">>
        /\ arg.args = <<"-", "d", "i", "t">> => last.result = <<"-", "d", "i">>
        /\ arg.args \in {<<"-", "t">>, <<"-", "-", "t", "t", "y">>} => last.result = <<>>
        /\ ~HasTtyFlag(arg.args) => shell_split(last.result) = shell_split(arg.args)

---------------------------------------------------------------------------
(* Argument paths: the claims. *)

\* the arguments that name an existing file, each with the absolute path of
\* the file and the directory the file is in
ExistingFileArgs ==
    {[a |-> <<"a">>, abs |-> <<"/", "h", "/", "a">>, dir |-> <<"/", "h">>],
     [a |-> <<".", "/", "a">>, abs |-> <<"/", "h", "/", "a">>, dir |-> <<"/", "h">>],
     [a |-> <<"/", "h", "/", "a">>, abs |-> <<"/", "h", "/", "a">>, dir |-> <<"/", "h">>],
     [a |-> <<"s", "/", "b">>, abs |-> <<"/", "h", "/", "s", "/", "b">>, dir |-> <<"/", "h", "/", "s">>],
     [a |-> <<".", ".", "/", "d", "/", "x">>, abs |-> <<"/", "d", "/", "x">>, dir |-> <<"/", "d">>],
     [a |-> <<"l">>, abs |-> <<"/", "d", "/", "x">>, dir |-> <<"/", "d">>]}

\* the text up to the last "/"; "/" itself for a name right under the root
DirText(t) == IF RFind(t, "/") <= 1 THEN <<"/">> ELSE SubSeq(t, 1, RFind(t, "/") - 1)

\* C18: there is one resolved argument per argument, in the order of the
\* arguments; an argument that starts with "-" comes back as it is and the
\* auto-mount list is what it is without such arguments; an argument that
\* names an existing file comes back as the file's absolute path and the
\* file's directory is in the auto-mount list; every directory of the list
\* is the directory of a resolved argument that does not start with "-";
\* the list holds no directory twice.
C18_ArgPathsResolved ==
    last.op = "args" =>
        LET r == last.result.resolved_args
            m == last.result.auto_mount_dirs
            plain == SelectSeq(arg.args, LAMBDA a : a[1] # "-")
        IN /\ Len(r) = Len(arg.args)
           /\ \A i \in 1..Len(arg.args) :
                /\ arg.args[i][1] = "-" => r[i] = arg.args[i]
                /\ \A x \in ExistingFileArgs :
                        arg.args[i] = x.a => (r[i] = x.abs /\ x.dir \in Range(m))
           /\ m = resolve_arg_paths(plain).auto_mount_dirs
           /\ \A j \in 1..Len(m) :
                \E i \in 1..Len(r) : arg.args[i][1] # "-" /\ r[i][1] = "/" /\ DirText(r[i]) = m[j]
           /\ \A i, j \in 1..Len(m) : i # j => m[i] # m[j]
           /\ \A x \in ExistingFileArgs : arg.args = <<x.a>> => m = <<x.dir>>

\* a flag, the flag-like name of an existing file and two spellings of one
\* existing file: the flags come back as they are and one directory is
\* mounted
C18_Witness ==
    /\ last.op = "args"
    /\ arg.args \in {<<<<"-", "a">>, <<"a">>, <<".", "/", "a">>>>, <<<<"-", "n">>, <<"l">>, <<".", ".", "/", "d", "/", "x">>>>}
    /\ last.result.resolved_args \in {<<<<"-", "a">>, <<"/", "h", "/", "a">>, <<"/", "h", "/", "a">>>>, <<<<"-", "n">>, <<"/", "d", "/", "x">>, <<"/", "d", "/", "x">>>>}
    /\ last.result.auto_mount_dirs \in {<<<<"/", "h">>>>, <<<<"/", "d">>>>}

---------------------------------------------------------------------------
(* The resolved crate set: the claims. *)

\* the references below cv in the order a walk along the imports meets them,
\* a reference met again on the way down from itself being left out
RECURSIVE Preorder(_, _, _)
RECURSIVE PreorderEach(_, _, _)
Preorder(f, cv, above) ==
    IF cv \in above \/ ~get_crate_entry(f, cv).some THEN <<>>
    ELSE <<cv>> \o PreorderEach(f, get_crate_entry(f, cv).val.imports, above \cup {cv})

PreorderEach(f, imports, above) ==
    IF imports = <<>> THEN <<>>
    ELSE Preorder(f, parse_registry_path(Head(imports), config_default_namespace).cv, above)
            \o PreorderEach(f, Tail(imports), above)

RECURSIVE PreorderOfList(_, _)
PreorderOfList(f, cl) ==
    IF cl = <<>> THEN <<>> ELSE Preorder(f, Head(cl), {}) \o PreorderOfList(f, Tail(cl))

\* the sequence without the later occurrences of its elements
RECURSIVE FirstOccurrences(_)
FirstOccurrences(q) ==
    IF q = <<>> THEN <<>>
    ELSE LET before == FirstOccurrences(SubSeq(q, 1, Len(q) - 1))
         IN IF q[Len(q)] \in Range(before) THEN before ELSE Append(before, q[Len(q)])

\* C20: at every step of a resolution the output list holds no reference
\* twice, and the list a resolution returns holds its references in the
\* order in which the walk from the starting references, in their order and
\* along the imports in their order, first meets them.
C20_EachCrateOnceInFirstReachOrder ==
    /\ \A i, j \in 1..Len(paths) : i # j => paths[i] # paths[j]
    /\ (rpc = "done" /\ ~rerr.some)
            => paths = FirstOccurrences(PreorderOfList(fs, cratelist))

\* a reference started from twice, and a starting reference that an earlier
\* one imports: each is in the list once, where it was first met
C20_Witness ==
    /\ rpc = "done"
    /\ ~rerr.some
    /\ \/ cratelist = <<A, A>> /\ paths = <<A, B>>
       \/ /\ cratelist = <<A, B>>
          /\ get_crate_entry(fs, A).val.imports = <<TextC, TextB>>
          /\ paths = <<A, C, B>>

---------------------------------------------------------------------------
(* The order of the resolved list: the claims. *)

\* the references an import list names
ImportRefs(f, cv) ==
    LET imports == get_crate_entry(f, cv).val.imports
    IN [i \in 1..Len(imports) |->
            parse_registry_path(imports[i], config_default_namespace).cv]

\* the references of white that a walk along the imports from S reaches
\* without leaving white
RECURSIVE WhiteReach(_, _, _)
WhiteReach(f, S, white) ==
    LET from == {x \in S \cap white : get_crate_entry(f, x).some}
        more == (S \cup UNION {Range(ImportRefs(f, x)) : x \in from}) \cap white
    IN IF more = S \cap white THEN more ELSE WhiteReach(f, more, white)

PosInPaths(cv) == CHOOSE i \in 1..Len(paths) : paths[i] = cv

BeforeInPaths(p) == {paths[k] : k \in 1..(p - 1)}

\* the references first reached below the crate at position p of the list:
\* those a walk from it reaches through references not in the list before it
FirstReachedBelow(f, p) == WhiteReach(f, {paths[p]}, Refs \ BeforeInPaths(p))

\* the references first reached through import i of the crate at position p:
\* those a walk from the import reaches through references that were neither
\* in the list before the crate nor first reached through an earlier import
RECURSIVE FirstReachedThrough(_, _, _)
RECURSIVE ReachedUpTo(_, _, _)
ReachedUpTo(f, p, i) ==
    IF i = 0 THEN BeforeInPaths(p) \cup {paths[p]}
    ELSE ReachedUpTo(f, p, i - 1) \cup FirstReachedThrough(f, p, i)

FirstReachedThrough(f, p, i) ==
    WhiteReach(f, {ImportRefs(f, paths[p])[i]}, Refs \ ReachedUpTo(f, p, i - 1))

\* C21: in the list a resolution returns, every crate comes before the
\* crates first reached through its imports, and whatever is first reached
\* through an earlier import of a manifest comes before whatever is first
\* reached through a later import of the same manifest.
C21_DepthFirstPreorder ==
    (rpc = "done" /\ ~rerr.some) =>
        \A p \in 1..Len(paths) :
            /\ \A y \in FirstReachedBelow(fs, p) \ {paths[p]} :
                    /\ y \in Range(paths)
                    /\ PosInPaths(y) > p
            /\ \A i, j \in 1..Len(ImportRefs(fs, paths[p])) :
                    i < j =>
                        \A y \in FirstReachedThrough(fs, p, i),
                           z \in FirstReachedThrough(fs, p, j) :
                            /\ y \in Range(paths)
                            /\ z \in Range(paths)
                            /\ PosInPaths(y) < PosInPaths(z)

\* a crate with two imports, each first reached through its own import: the
\* list holds the crate, then the first import, then the second
C21_Witness ==
    /\ rpc = "done"
    /\ ~rerr.some
    /\ cratelist = <<B>>
    /\ paths = <<B, C, A>>
    /\ FirstReachedThrough(fs, 1, 1) = {C}
    /\ FirstReachedThrough(fs, 1, 2) = {A}

---------------------------------------------------------------------------
(* Ensuring a crate and its imports: the claims. *)

Occurrences(q, x) == Cardinality({i \in 1..Len(q) : q[i] = x})

\* C22: during a call of ensure_cached_with_imports, ensure_cached is
\* applied to each reference at most once and the registry is asked for each
\* reference at most once, so that the calls never nest deeper than there are
\* references and the walk ends on every import graph, a cyclic one too.
C22_EnsureOncePerReference ==
    ens.pc \in {"run", "done"} =>
        /\ \A r \in Refs : Occurrences(ens.applied, r) <= 1
        /\ \A r \in Refs : Occurrences(ens.fetched, r) <= 1
        /\ Len(ens.stack) <= Cardinality(Refs)

---------------------------------------------------------------------------
(* Removing a cached manifest: the claims. *)

\* the tag, name and namespace directories of a reference
DirsAbove(cv) ==
    {manifest_path(cv), Parent(manifest_path(cv)), Parent(Parent(manifest_path(cv)))}

\* C23: after remove_cached(cv) neither the manifest file nor the digest
\* sidecar of cv is in the cache, none of the tag, name and namespace
\* directories of cv is left behind empty, and a directory of cv that is
\* left holds a file or a directory of another reference.
C23_RemoveLeavesNothing ==
    last.op = "remove" =>
        /\ ~fs.files[manifest_path(last.cv)].exists
        /\ ~fs.digests[manifest_path(last.cv)].exists
        /\ \A d \in DirsAbove(last.cv) : DirIsEmpty(fs, d) => d \notin fs.dirs
        /\ \A d \in DirsAbove(last.cv) \cap fs.dirs :
                \E r \in CacheRefs \ {last.cv} :
                    /\ manifest_path(r) # manifest_path(last.cv)
                    /\ d \in DirsAbove(r)
                    /\ manifest_path(r) \in fs.dirs

---------------------------------------------------------------------------
(* spawn_and_wait called again: the claims. *)

\* C24: however many times spawn_and_wait has been called, the process has
\* at most one listener thread, and no signal the process received has
\* started more than one escalation against the child's process group.
C24_OneListenerOneEscalation ==
    sup.pc \in {"idle", "spawn", "store", "wait"} =>
        /\ Len(listeners) <= 1
        /\ \A i, j \in 1..Len(sent) : i # j => sent[i].of # sent[j].of

---------------------------------------------------------------------------
(* The volumes of a dispatch: the claims. *)

NoRepeats(q) == \A i, j \in 1..Len(q) : i # j => q[i] # q[j]

\* the sources of the volume list in their order: the configured default
\* volumes unless the command disables them, the command's volumes, the
\* auto-mount directories and the temp directory
VolumeSources ==
    (IF arg.no_default_volumes THEN <<>> ELSE arg.config_volumes)
        \o arg.pkg_volumes \o arg.auto_mount_dirs
        \o << IF arg.TMPDIR.some THEN arg.TMPDIR.val ELSE "/tmp" >>

FirstAt(q, x) == CHOOSE i \in 1..Len(q) : q[i] = x /\ \A j \in 1..(i - 1) : q[j] # x

\* C25 as stated: the merged volume list holds no entry twice and holds the
\* entries of its sources in the order of their first occurrence.
C25_VolumesOnceInFirstOccurrenceOrder ==
    last.op = "volumes" =>
        /\ NoRepeats(last.result)
        /\ Range(last.result) = Range(VolumeSources)
        /\ \A i, j \in 1..Len(last.result) :
                i < j => FirstAt(VolumeSources, last.result[i])
                            < FirstAt(VolumeSources, last.result[j])

\* C25, amended: the merged volume list begins with the configured default
\* volumes as they are configured, repeats included (with nothing when the
\* command disables them); after them come, once each and in the order of
\* their first occurrence, the entries of the command's volumes, the
\* auto-mount directories and the temp directory that are not among the
\* default volumes in use.  When the default volumes in use hold no entry
\* twice, the whole list holds no entry twice and is in first-occurrence
\* order.
C25_VolumesAppendedOnce ==
    last.op = "volumes" =>
        LET start == IF arg.no_default_volumes THEN <<>> ELSE arg.config_volumes
            rest == SubSeq(last.result, Len(start) + 1, Len(last.result))
        IN /\ Len(last.result) >= Len(start)
           /\ SubSeq(last.result, 1, Len(start)) = start
           /\ NoRepeats(rest)
           /\ Range(rest) = Range(VolumeSources) \ Range(start)
           /\ \A i, j \in 1..Len(rest) :
                i < j => FirstAt(VolumeSources, rest[i]) < FirstAt(VolumeSources, rest[j])
           /\ NoRepeats(start) =>
                /\ NoRepeats(last.result)
                /\ \A i, j \in 1..Len(last.result) :
                        i < j => FirstAt(VolumeSources, last.result[i])
                                    < FirstAt(VolumeSources, last.result[j])

\* a command volume that repeats a default volume and itself, an auto-mount
\* directory that is new, and a TMPDIR that is already in the list
C25_Witness ==
    /\ last.op = "volumes"
    /\ arg.config_volumes = <<"$HOME">>
    /\ ~arg.no_default_volumes
    /\ arg.pkg_volumes = <<"/data", "/data">>
    /\ arg.auto_mount_dirs = <<"$HOME", "/tmp">>
    /\ arg.TMPDIR = Some("/data")
    /\ last.result = <<"$HOME", "/data", "/tmp">>

---------------------------------------------------------------------------
(* The extra arguments of the engine, merged: the claims. *)

\* the namespace, name and tag tool_args files each image under
ImageKeys(img) ==
    IF img = <<"i">>
    THEN [namespace |-> <<"d","o","c","k","e","r">>, image |-> <<"i">>,
          tag |-> <<"l","a","t","e","s","t">>]
    ELSE IF img = <<"i",":","1">>
    THEN [namespace |-> <<"d","o","c","k","e","r">>, image |-> <<"i">>, tag |-> <<"1">>]
    ELSE [namespace |-> <<"q","-","o","-","b">>, image |-> <<"i">>, tag |-> <<"1">>]

\* the docker_args entry tool_args holds for the image under tag, if any
ToolEntry(tag) ==
    LET k == ImageKeys(arg.pkg.docker_image)
        tags == arg.tool_args.val.at[k.namespace].at[k.image].at
    IN IF arg.tool_args.some /\ tag \in DOMAIN tags /\ DOCKER_ARGS \in DOMAIN tags[tag].at
       THEN Some(tags[tag].at[DOCKER_ARGS].str)
       ELSE None

\* the sources in their order, an absent one empty: the two fields of
\* the manifest, the config override, the caller's environment
ExtraArgSources ==
    LET k == ImageKeys(arg.pkg.docker_image)
        override == IF ToolEntry(k.tag).some THEN ToolEntry(k.tag).val
                    ELSE IF ToolEntry(DefaultTag).some THEN ToolEntry(DefaultTag).val
                    ELSE <<>>
    IN << IF arg.pkg.dockerargs.some THEN arg.pkg.dockerargs.val ELSE <<>>,
          IF arg.pkg.docker_args.some THEN arg.pkg.docker_args.val ELSE <<>>,
          override,
          IF arg.env # <<>> THEN arg.env[1].value ELSE <<>> >>

\* the sources that are not empty, in their order
Nonempty(q) == SelectSeq(q, LAMBDA t : t # <<>>)

\* C26: the merged extra-argument string is the non-empty ones among the
\* manifest-declared arguments, the config override of the image (that of
\* its exact tag if there is one, otherwise that of "default") and the
\* override of the caller's environment, in this order, with one space
\* between one and the next.
C26_ExtraArgsJoinedInOrder ==
    last.op = "docker_args" => last.result = join(Nonempty(ExtraArgSources), <<" ">>)

---------------------------------------------------------------------------
(* Signals while the child runs: the claims. *)

\* C27: a signal the listener receives while the spawned child runs goes to
\* graceful_kill_group for the child's process group, also when it is
\* received after the spawn and before the child's pid is stored.
C27_NoSignalDroppedWhileChildRuns ==
    (lis.pc # "none" /\ lis.n > 0 /\ lis.at = "running") =>
        /\ lis.pgid = child.pid
        /\ lis.pc = "listen" => (sent # <<>> \/ child.state = "gone")

---------------------------------------------------------------------------
(* Sessions: the claims. *)

\* C28: every entry of the shimlink directory of an activation that links
\* to the program can be dispatched: the lookup from the crate the session
\* records, the first of the activated list, finds a definition for it.
C28_EveryShimDispatches ==
    last.op = "dispatched" =>
        /\ last.result.ok
        /\ last.result.val.command = actual_command(last.command)

---------------------------------------------------------------------------
(* The shimlink directory of an exec: the claims. *)

\* C29: a shimlink directory is there only while the invocation that
\* created it runs: once the invocation has ended, by the completion of its
\* command, by a failure to spawn it or by a failure to fetch or resolve,
\* the directory it created is gone.
C29_ShimdirGoneWhenExecEnds ==
    \A n \in TmpNames :
        tmp[n].exists =>
            \E p \in Procs : acts[p].pc # "idle" /\ acts[p].id = tmp[n].creator

---------------------------------------------------------------------------
(* The digest sidecar under saves and removes side by side:
   manifest_cache.rs 39-65, 81-98, 164-180. Each process steps through one
   cache operation on the reference A, one file-system call at a time. *)

\* read_digest_sidecar(cv, "crate-manifest-digest")
read_digest_sidecar(f, cv) ==
    LET path == manifest_path(cv)
    IN IF f.digests[path].exists THEN Some(f.digests[path].content) ELSE None

\* std::fs::write(path, content) into the directory d: fails when the
\* directory is not there
WriteIn(f, d) == d \in f.dirs

\* ensure_crate_manifest_digest: the sidecar if it can be read, else the
\* digest of the cached manifest, written to the sidecar
ensure_crate_manifest_digest(f, cv) ==
    LET path == manifest_path(cv)
        d == read_digest_sidecar(f, cv)
        cached == load_cached(f, cv)
    IN IF d.some THEN [fs |-> f, result |-> Ok(d)]
       ELSE IF ~cached.ok THEN [fs |-> f, result |-> Err("parse")]
       ELSE IF cached.val.some
       THEN [fs |-> [f EXCEPT !.digests[path] = File(crate_manifest_digest(cached.val.val))],
             result |-> Ok(Some(crate_manifest_digest(cached.val.val)))]
       ELSE [fs |-> f, result |-> Ok(None)]

SaverIdle == [pc |-> "idle"]

NoCacheOperation == \A p \in Procs : savers[p].pc = "idle"

DigestOthersIdle ==
    UNCHANGED <<saved, resVars, concVars, shimVars, procVars, ens, listeners, arg>>

\* save_to_cache(cv, manifest) is called
SaveStart(p, m) ==
    /\ savers[p].pc = "idle"
    /\ savers' = [savers EXCEPT ![p] = [pc |-> "mkdir", cv |-> A, m |-> m]]
    /\ UNCHANGED <<fs, last>>
    /\ DigestOthersIdle

\* save_to_cache: create_dir_all(parent)
SaveMkdir(p) ==
    /\ savers[p].pc = "mkdir"
    /\ fs' = create_dir_all(fs, manifest_path(savers[p].cv))
    /\ savers' = [savers EXCEPT ![p].pc = "write"]
    /\ UNCHANGED last
    /\ DigestOthersIdle

\* save_to_cache: std::fs::write(&path, &yaml)?
SaveWrite(p) ==
    LET path == manifest_path(savers[p].cv)
    IN /\ savers[p].pc = "write"
       /\ IF WriteIn(fs, path)
          THEN /\ fs' = [fs EXCEPT !.files[path] = File(to_yaml(savers[p].m))]
               /\ savers' = [savers EXCEPT ![p].pc = "sidecar"]
          ELSE /\ fs' = fs
               /\ savers' = [savers EXCEPT ![p] = SaverIdle]
       /\ UNCHANGED last
       /\ DigestOthersIdle

\* save_to_cache: let _ = std::fs::write(&sidecar, &result.digest)
SaveSidecar(p) ==
    LET path == manifest_path(savers[p].cv)
    IN /\ savers[p].pc = "sidecar"
       /\ fs' = IF WriteIn(fs, path)
                THEN [fs EXCEPT !.digests[path] = File(crate_manifest_digest(savers[p].m))]
                ELSE fs
       /\ savers' = [savers EXCEPT ![p] = SaverIdle]
       /\ UNCHANGED last
       /\ DigestOthersIdle

\* remove_cached(cv) is called
RemoveStart(p) ==
    /\ savers[p].pc = "idle"
    /\ savers' = [savers EXCEPT ![p] = [pc |-> "unlink", cv |-> A]]
    /\ UNCHANGED <<fs, last>>
    /\ DigestOthersIdle

\* remove_cached: if path.exists() { remove_file(&path)? }
RemoveUnlink(p) ==
    LET path == manifest_path(savers[p].cv)
    IN /\ savers[p].pc = "unlink"
       /\ fs' = IF fs.files[path].exists THEN [fs EXCEPT !.files[path] = NoFile] ELSE fs
       /\ savers' = [savers EXCEPT ![p].pc = "rmdirs"]
       /\ UNCHANGED last
       /\ DigestOthersIdle

\* remove_cached: remove_dir on the three directories above the file
RemoveDirs(p) ==
    LET path == manifest_path(savers[p].cv)
    IN /\ savers[p].pc = "rmdirs"
       /\ fs' = remove_dir(remove_dir(remove_dir(fs, path), Parent(path)),
                           Parent(Parent(path)))
       /\ savers' = [savers EXCEPT ![p] = SaverIdle]
       /\ UNCHANGED last
       /\ DigestOthersIdle

\* ensure_crate_manifest_digest(cv) and load_cached(cv), called while no
\* save or remove is in progress
ReportDigest ==
    LET r == ensure_crate_manifest_digest(fs, A)
    IN /\ NoCacheOperation
       /\ last' = [op |-> "digest", reported |-> r.result, loaded |-> load_cached(fs, A),
                   sidecar |-> read_digest_sidecar(fs, A)]
       /\ fs' = r.fs
       /\ UNCHANGED savers
       /\ DigestOthersIdle

InitDigest ==
    /\ fs = EmptyFs
    /\ saved = [r \in CacheRefs |-> None]
    /\ savers = [p \in Procs |-> SaverIdle]
    /\ ens = [pc |-> "none"]
    /\ listeners = <<>>
    /\ last = [op |-> "init"]
    /\ ResolverAtRest
    /\ ProcAtRest
    /\ PureAtRest
    /\ ConcAtRest
    /\ ShimAtRest

NextDigest ==
    \/ \E p \in Procs, m \in CacheManifests : SaveStart(p, m)
    \/ \E p \in Procs : SaveMkdir(p)
    \/ \E p \in Procs : SaveWrite(p)
    \/ \E p \in Procs : SaveSidecar(p)
    \/ \E p \in Procs : RemoveStart(p)
    \/ \E p \in Procs : RemoveUnlink(p)
    \/ \E p \in Procs : RemoveDirs(p)
    \/ ReportDigest

SpecDigest == InitDigest /\ [][NextDigest]_vars

---------------------------------------------------------------------------
(* The digest sidecar: the claims. *)

\* C30: whenever no save or remove is in progress, the digest reported for
\* a reference is the digest of the manifest that load_cached returns, and
\* no digest is reported when no manifest is cached.
C30_DigestAgreesWithManifest ==
    last.op = "digest" =>
        /\ last.reported.ok
        /\ IF last.loaded.ok /\ last.loaded.val.some
           THEN last.reported.val = Some(crate_manifest_digest(last.loaded.val.val))
           ELSE last.reported.val = None

====
